---------------------------- MODULE Spec2Model ----------------------------
(***************************************************************************)
(* A model of the statistics engine of freebsd-libgeom                     *)
(* (src/freebsd-libgeom/src/lib.rs): Statistics::compute, the macros it    *)
(* is built from (delta!, delta_t!) and the accessors generated by         *)
(* fields!, fields_per_sec!, kb_per_xfer!, mb_per_sec! and ms_per_xfer!,   *)
(* plus busy_time, busy_pct and queue_length; and of its snapshots:       *)
(* Snapshot::new, SnapshotIter and SnapshotPairIter; of the refresh of     *)
(* gstat (src/gstat/src/main.rs) and greasestat                            *)
(* (src/greasestat/src/main.rs); of gstat's widgets and event loop; and    *)
(* of the /metrics handler of freebsd-geom-exporter                        *)
(* (src/freebsd-geom-exporter/src/main.rs).                                *)
(*                                                                         *)
(* Machine integers keep their signedness and wrap at a width that is      *)
(* scaled down (U64Bits, U32Bits, SecBits, FracBits) so that the model     *)
(* checker can enumerate the extreme values.  Rust's +, - on integers      *)
(* panic on overflow when the build has overflow checks (the debug         *)
(* profile) and wrap otherwise (the release profile): overflow_checks is   *)
(* the build's choice.  An f64 is modelled as an exact number              *)
(* n / (d * 2^e), or NaN, +Infinity, -Infinity; rounding is not modelled.  *)
(***************************************************************************)
EXTENDS Integers, Sequences, FiniteSets, TLC

VARIABLES
    current,          \* the Devstat handed to compute as `current`
    previous,         \* Option<Devstat>: [some |-> BOOLEAN, ds |-> devstat]
    etime,            \* the f64 handed to compute as `etime`
    overflow_checks,  \* TRUE: integer overflow panics; FALSE: it wraps
    pc,               \* "start", "computed", "called", "panicked"
    stats,            \* the Statistics compute returned
    ret,              \* the last accessor call: [meth, panicked, val]
    GEOM_STATS,       \* the lazy static: "uninit", "Ok" or "Err"
    snapshots,        \* the Snapshots made so far, by handle 1, 2, ..
    iterator,         \* the SnapshotIter or SnapshotPairIter that is live
    new_result,       \* how the last Snapshot::new ended
    program,          \* "gstat" or "greasestat"
    data,             \* its DataSource or StatefulTable: prev, cur, items
    ss,               \* refresh's new snapshot, until it becomes cur
    rpc,              \* "start", "idle", "acquired", "failed", "panicked"
    refresh_result,   \* what the last refresh returned: "Ok" or "Err"
    timestamps,       \* the timestamp of every snapshot, by handle
    clock,            \* the kernel's clock
    regenerated,      \* the last regen: its etime, its calls of compute
    before,           \* data as it was when the last refresh was called
    history,          \* the snapshots deltas were computed against, and
                      \* those released as the older previous snapshot
    refreshes,        \* the number of refreshes that returned Ok
    table,            \* gstat's StatefulTable: state.selected, len
    columns,          \* gstat's Columns: cols, state.selected
    cfg,              \* gstat's Cli: the configuration that is persisted
    main,             \* the locals of gstat's main, and where it is
    deinterleaved,    \* the last call of deinterleave: items, n, containers
    called,           \* the last method called on a widget
    cli,              \* the exporter's Cli
    registry,         \* the exporter's gauges: the series of each family
    response          \* what the last scrape of /metrics returned

statsVars == <<current, previous, etime, overflow_checks, pc, stats, ret>>

libVars == <<GEOM_STATS, snapshots, iterator, new_result>>

refreshVars ==
    <<program, data, ss, rpc, refresh_result, timestamps, clock, regenerated,
      before, history, refreshes>>

uiVars == <<table, columns, cfg, main, deinterleaved, called>>

exporterVars == <<cli, registry, response>>

vars == <<statsVars, libVars, refreshVars, uiVars, exporterVars>>

\* What the statistics engine, and what a client of the snapshots, leave
\* alone
notStatsVars == <<libVars, refreshVars, uiVars, exporterVars>>

notLibVars == <<statsVars, refreshVars, uiVars, exporterVars>>

(***************************************************************************)
(* Widths of the machine integers, scaled down.                            *)
(***************************************************************************)
U64Bits == 22
U32Bits == 13
SecBits == 4
FracBits == 3

U64Mod == 2 ^ U64Bits
U64Max == U64Mod - 1
U32Mod == 2 ^ U32Bits
U32Max == U32Mod - 1
FracMod == 2 ^ FracBits
FracMax == FracMod - 1
SecMod == 2 ^ SecBits
SecMin == -(2 ^ (SecBits - 1))
SecMax == 2 ^ (SecBits - 1) - 1

(***************************************************************************)
(* f64                                                                     *)
(***************************************************************************)
Abs(x) == IF x < 0 THEN -x ELSE x

Sgn(x) == IF x < 0 THEN -1 ELSE IF x = 0 THEN 0 ELSE 1

MaxInt(a, b) == IF a >= b THEN a ELSE b

RECURSIVE Gcd(_, _)
Gcd(a, b) == IF b = 0 THEN a ELSE Gcd(b, a % b)

\* The number of times 2 divides x (x # 0).
RECURSIVE Twos(_)
Twos(x) == IF x % 2 = 0 THEN 1 + Twos(x \div 2) ELSE 0

NaN == [kind |-> "nan", n |-> 0, d |-> 1, e |-> 0]
PosInf == [kind |-> "inf", n |-> 1, d |-> 1, e |-> 0]
NegInf == [kind |-> "inf", n |-> -1, d |-> 1, e |-> 0]

\* The finite number n / (d * 2^e), d > 0, in its normal form: n and d odd
\* and coprime (0 is 0 / (1 * 2^0)).
Fin(n, d, e) ==
    IF n = 0 THEN [kind |-> "fin", n |-> 0, d |-> 1, e |-> 0]
    ELSE LET g == Gcd(Abs(n), d)
             n1 == n \div g
             d1 == d \div g
             tn == Twos(Abs(n1))
             td == Twos(d1)
         IN  [kind |-> "fin", n |-> Sgn(n1) * (Abs(n1) \div (2 ^ tn)),
              d |-> d1 \div (2 ^ td), e |-> e + td - tn]

\* `x as f64` of an integer
FromInt(x) == Fin(x, 1, 0)

Rat(n, d) == Fin(n, d, 0)

Zero == FromInt(0)

IsFinite(x) == x.kind = "fin"

\* x > 0.0 (false of NaN)
Gt0(x) == x.kind # "nan" /\ x.n > 0

Lt0(x) == x.kind # "nan" /\ x.n < 0

AddF(x, y) ==
    IF x.kind = "nan" \/ y.kind = "nan" THEN NaN
    ELSE IF x.kind = "inf" /\ y.kind = "inf"
         THEN IF x.n = y.n THEN x ELSE NaN
    ELSE IF x.kind = "inf" THEN x
    ELSE IF y.kind = "inf" THEN y
    ELSE LET E == MaxInt(x.e, y.e)
         IN  Fin(x.n * y.d * (2 ^ (E - x.e)) + y.n * x.d * (2 ^ (E - y.e)),
                 x.d * y.d, E)

MulF(x, y) ==
    IF x.kind = "nan" \/ y.kind = "nan" THEN NaN
    ELSE IF x.kind = "inf" \/ y.kind = "inf"
         THEN IF x.n = 0 \/ y.n = 0 THEN NaN
              ELSE IF Sgn(x.n) = Sgn(y.n) THEN PosInf ELSE NegInf
    ELSE LET g1 == Gcd(Abs(x.n), y.d)
             g2 == Gcd(Abs(y.n), x.d)
         IN  Fin((x.n \div g1) * (y.n \div g2),
                 (x.d \div g2) * (y.d \div g1), x.e + y.e)

DivF(x, y) ==
    IF x.kind = "nan" \/ y.kind = "nan" THEN NaN
    ELSE IF x.kind = "inf"
         THEN IF y.kind = "inf" THEN NaN
              ELSE IF Sgn(x.n) * Sgn(y.n) < 0 THEN NegInf ELSE PosInf
    ELSE IF y.kind = "inf" THEN Zero
    ELSE IF y.n = 0
         THEN IF x.n = 0 THEN NaN ELSE IF x.n > 0 THEN PosInf ELSE NegInf
    ELSE LET g1 == Gcd(Abs(x.n), Abs(y.n))
             g2 == Gcd(x.d, y.d)
         IN  Fin(Sgn(y.n) * (x.n \div g1) * (y.d \div g2),
                 (x.d \div g2) * (Abs(y.n) \div g1), x.e - y.e)

\* x < y on numbers that are not NaN
LtF(x, y) ==
    IF x.kind = "inf" THEN x.n < 0 /\ ~(y.kind = "inf" /\ y.n < 0)
    ELSE IF y.kind = "inf" THEN y.n > 0
    ELSE Lt0(AddF(x, MulF(FromInt(-1), y)))

\* f64::max: the other operand when one is NaN
MaxF(x, y) ==
    IF x.kind = "nan" THEN y
    ELSE IF y.kind = "nan" THEN x
    ELSE IF LtF(x, y) THEN y ELSE x


(***************************************************************************)
(* Machine integers.  Each operation gives the wrapped value and whether   *)
(* the exact result was out of the type's range.                           *)
(***************************************************************************)
SubU64(a, b) == [val |-> (a - b) % U64Mod, overflow |-> a - b < 0]

AddU64(a, b) == [val |-> (a + b) % U64Mod, overflow |-> a + b > U64Max]

SubU32(a, b) == [val |-> (a - b) % U32Mod, overflow |-> a - b < 0]

SubI64(a, b) ==
    [val |-> ((a - b - SecMin) % SecMod) + SecMin,
     overflow |-> a - b < SecMin \/ a - b > SecMax]

\* u64::overflowing_sub on the fraction of a bintime
OverflowingSubFrac(a, b) == [val |-> (a - b) % FracMod, overflow |-> a < b]

(***************************************************************************)
(* struct devstat, as far as the engine reads it.  The four transaction    *)
(* classes index operations, bytes and duration.                           *)
(***************************************************************************)
Classes == {"NO_DATA", "READ", "WRITE", "FREE"}

ZeroBintime == [sec |-> 0, frac |-> 0]

ZeroDevstat ==
    [operations |-> [c \in Classes |-> 0],
     bytes |-> [c \in Classes |-> 0],
     duration |-> [c \in Classes |-> ZeroBintime],
     busy_time |-> ZeroBintime,
     start_count |-> 0,
     end_count |-> 0,
     block_size |-> 0]

None == [some |-> FALSE, ds |-> ZeroDevstat]

Some(ds) == [some |-> TRUE, ds |-> ds]

\* BINTIME_SCALE is 1 / 2**64: one unit of bintime.frac, in seconds
BINTIME_SCALE == Fin(1, 1, FracBits)

\* delta! as it would be if no previous stood for "no change" rather than
\* for zero: the first sample of a device would then report nothing.
delta_none_as_current(cur, prev, field, index) ==
    LET new == cur[field][index]
        old == IF prev.some THEN prev.ds[field][index] ELSE new
    IN  [val |-> (new - old) % U64Mod, overflow |-> new - old < 0]

(***************************************************************************)
(* delta!: the field of current minus that of previous, 0 for no previous. *)
(***************************************************************************)
delta(cur, prev, field, index) ==
    LET old == IF prev.some THEN prev.ds[field][index] ELSE 0
        new == cur[field][index]
    IN  SubU64(new, old)

\* The closures handed to delta_t! as $bintime select one bintime of a
\* devstat: <<"busy_time">> or <<"duration", class>>.
Bintime(ds, sel) ==
    IF Len(sel) = 1 THEN ds[sel[1]] ELSE ds[sel[1]][sel[2]]

(***************************************************************************)
(* delta_t!: the bintime of current minus that of previous, in seconds.    *)
(***************************************************************************)
delta_t(cur, prev, sel) ==
    LET old == IF prev.some THEN Bintime(prev.ds, sel) ELSE ZeroBintime
        new == Bintime(cur, sel)
        d1 == SubI64(new.sec, old.sec)
        df == OverflowingSubFrac(new.frac, old.frac)
        d2 == IF df.overflow THEN SubI64(d1.val, 1)
              ELSE [val |-> d1.val, overflow |-> FALSE]
    IN  [val |-> AddF(FromInt(d2.val), MulF(FromInt(df.val), BINTIME_SCALE)),
         overflow |-> d1.overflow \/ d2.overflow]

(***************************************************************************)
(* Statistics::compute.  st is the struct built when no step panics;       *)
(* panicked says that some integer operation overflowed in a build with    *)
(* overflow checks.                                                        *)
(***************************************************************************)
\* The sum of the transfers as it would be without the Other class
total_transfers_sum_without_other(read, write, other, free) ==
    LET s1 == AddU64(read, write)
        s3 == AddU64(s1.val, free)
    IN  [val |-> s3.val, overflow |-> s1.overflow \/ s3.overflow]

\* total_transfers_read + total_transfers_write + total_transfers_other
\*     + total_transfers_free
total_transfers_sum(read, write, other, free) ==
    LET s1 == AddU64(read, write)
        s2 == AddU64(s1.val, other)
        s3 == AddU64(s2.val, free)
    IN  [val |-> s3.val,
         overflow |-> s1.overflow \/ s2.overflow \/ s3.overflow]

\* The sum of the bytes as it would be without the Free class
total_bytes_sum_without_free(read, write, free) ==
    [val |-> (read + write) % U64Mod, overflow |-> read + write > U64Max]

\* total_bytes_read + total_bytes_write + total_bytes_free
total_bytes_sum(read, write, free) ==
    LET s1 == AddU64(read, write)
        s2 == AddU64(s1.val, free)
    IN  [val |-> s2.val, overflow |-> s1.overflow \/ s2.overflow]

\* total_duration_read + total_duration_write + total_duration_other
\*     + total_duration_free
total_duration_sum(read, write, other, free) ==
    AddF(AddF(AddF(read, write), other), free)

\* The block denominator as it would be if the block size were ignored
block_denominator_always_512(cur) == 512

block_denominator(cur) ==
    IF cur.block_size > 0 THEN cur.block_size ELSE 512

compute(cur, prev, et) ==
    LET total_transfers_read == delta(cur, prev, "operations", "READ")
        total_transfers_write == delta(cur, prev, "operations", "WRITE")
        total_transfers_other == delta(cur, prev, "operations", "NO_DATA")
        total_transfers_free == delta(cur, prev, "operations", "FREE")
        total_transfers ==
            total_transfers_sum(total_transfers_read.val,
                                total_transfers_write.val,
                                total_transfers_other.val,
                                total_transfers_free.val)

        total_bytes_free == delta(cur, prev, "bytes", "FREE")
        total_bytes_read == delta(cur, prev, "bytes", "READ")
        total_bytes_write == delta(cur, prev, "bytes", "WRITE")
        total_bytes ==
            total_bytes_sum(total_bytes_read.val, total_bytes_write.val,
                            total_bytes_free.val)

        denominator == block_denominator(cur)

        total_duration_free == delta_t(cur, prev, <<"duration", "FREE">>)
        total_duration_read == delta_t(cur, prev, <<"duration", "READ">>)
        total_duration_write == delta_t(cur, prev, <<"duration", "WRITE">>)
        total_duration_other == delta_t(cur, prev, <<"duration", "NO_DATA">>)
        total_duration ==
            total_duration_sum(total_duration_read.val,
                               total_duration_write.val,
                               total_duration_other.val,
                               total_duration_free.val)
    IN  [panicked |->
            /\ overflow_checks
            /\ \/ total_transfers_read.overflow
               \/ total_transfers_write.overflow
               \/ total_transfers_other.overflow
               \/ total_transfers_free.overflow
               \/ total_transfers.overflow
               \/ total_bytes_free.overflow
               \/ total_bytes_read.overflow
               \/ total_bytes_write.overflow
               \/ total_bytes.overflow
               \/ total_duration_free.overflow
               \/ total_duration_read.overflow
               \/ total_duration_write.overflow
               \/ total_duration_other.overflow,
         st |->
            [current |-> cur,
             previous |-> prev,
             etime |-> et,
             total_bytes |-> total_bytes.val,
             total_bytes_free |-> total_bytes_free.val,
             total_bytes_read |-> total_bytes_read.val,
             total_bytes_write |-> total_bytes_write.val,
             total_blocks |-> total_bytes.val \div denominator,
             total_blocks_free |-> total_bytes_free.val \div denominator,
             total_blocks_read |-> total_bytes_read.val \div denominator,
             total_blocks_write |-> total_bytes_write.val \div denominator,
             total_duration |-> total_duration,
             total_duration_free |-> total_duration_free.val,
             total_duration_other |-> total_duration_other.val,
             total_duration_read |-> total_duration_read.val,
             total_duration_write |-> total_duration_write.val,
             total_transfers |-> total_transfers.val,
             total_transfers_free |-> total_transfers_free.val,
             total_transfers_other |-> total_transfers_other.val,
             total_transfers_read |-> total_transfers_read.val,
             total_transfers_write |-> total_transfers_write.val]]

(***************************************************************************)
(* The accessors.  Each macro is an operator of the struct and of the      *)
(* fields the macro is invoked with; the tables give, per generated        *)
(* method, the fields of its invocation.                                   *)
(***************************************************************************)
fields(self, field) == self[field]

fields_per_sec(self, field) ==
    IF Gt0(self.etime) THEN DivF(FromInt(self[field]), self.etime) ELSE Zero

\* kb_per_xfer! as it would be without its test of the transfer count
kb_per_xfer_unguarded(self, xfers, bytes) ==
    DivF(DivF(FromInt(self[bytes]), FromInt(2 ^ 10)), FromInt(self[xfers]))

kb_per_xfer(self, xfers, bytes) ==
    IF self[xfers] > 0
    THEN DivF(DivF(FromInt(self[bytes]), FromInt(2 ^ 10)), FromInt(self[xfers]))
    ELSE Zero

mb_per_sec(self, field) ==
    IF Gt0(self.etime)
    THEN DivF(DivF(FromInt(self[field]), FromInt(2 ^ 20)), self.etime)
    ELSE Zero

\* ms_per_xfer! generates two methods: $duration, and $meth
ms_per_xfer_duration(self, duration) == self[duration]

\* ms_per_xfer! as it would be if it left the duration in seconds
ms_per_xfer_in_seconds(self, xfers, duration) ==
    IF self[xfers] > 0
    THEN DivF(self[duration], FromInt(self[xfers]))
    ELSE Zero

ms_per_xfer(self, xfers, duration) ==
    IF self[xfers] > 0
    THEN DivF(MulF(self[duration], FromInt(1000)), FromInt(self[xfers]))
    ELSE Zero

FieldsMethods ==
    {"total_bytes", "total_bytes_free", "total_bytes_read",
     "total_bytes_write", "total_blocks", "total_blocks_free",
     "total_blocks_read", "total_blocks_write", "total_transfers",
     "total_transfers_free", "total_transfers_read",
     "total_transfers_other", "total_transfers_write"}

FieldsPerSecMethods ==
    [blocks_per_second |-> "total_blocks",
     blocks_per_second_free |-> "total_blocks_free",
     blocks_per_second_read |-> "total_blocks_read",
     blocks_per_second_write |-> "total_blocks_write",
     transfers_per_second |-> "total_transfers",
     transfers_per_second_free |-> "total_transfers_free",
     transfers_per_second_other |-> "total_transfers_other",
     transfers_per_second_read |-> "total_transfers_read",
     transfers_per_second_write |-> "total_transfers_write"]

KbPerXferMethods ==
    [kb_per_transfer |-> <<"total_transfers", "total_bytes">>,
     kb_per_transfer_free |-> <<"total_transfers_free", "total_bytes">>,
     kb_per_transfer_read |-> <<"total_transfers_read", "total_bytes">>,
     kb_per_transfer_write |-> <<"total_transfers_write", "total_bytes">>]

MsPerXferMethods ==
    [ms_per_transaction |-> <<"total_transfers", "total_duration">>,
     ms_per_transaction_free |->
        <<"total_transfers_free", "total_duration_free">>,
     ms_per_transaction_read |->
        <<"total_transfers_read", "total_duration_read">>,
     ms_per_transaction_other |->
        <<"total_transfers_other", "total_duration_other">>,
     ms_per_transaction_write |->
        <<"total_transfers_write", "total_duration_write">>]

MbPerSecMethods ==
    [mb_per_second |-> "total_bytes",
     mb_per_second_free |-> "total_bytes_free",
     mb_per_second_read |-> "total_bytes_read",
     mb_per_second_write |-> "total_bytes_write"]

\* busy_time as it would be if it were a delta against previous
busy_time_since_previous(self) ==
    delta_t(self.current, self.previous, <<"busy_time">>).val

busy_time(self) ==
    LET bt == self.current.busy_time
    IN  AddF(FromInt(bt.sec), MulF(FromInt(bt.frac), BINTIME_SCALE))

\* val is what the method returns when it does not panic
busy_pct(self) ==
    LET d == delta_t(self.current, self.previous, <<"busy_time">>)
    IN  [panicked |-> overflow_checks /\ d.overflow,
         val |-> MaxF(MulF(DivF(d.val, self.etime), FromInt(100)), Zero)]

queue_length(self) ==
    LET q == SubU32(self.current.start_count, self.current.end_count)
    IN  [panicked |-> overflow_checks /\ q.overflow, val |-> q.val]

(***************************************************************************)
(* Snapshots.  A snapshot holds the records the kernel gave, in the        *)
(* kernel's order, and the cursor of libgeom's internal iterator: uu       *)
(* records have been handed out since the last reset.  A record is a       *)
(* devstat and the device id in it.                                        *)
(***************************************************************************)
Record(id, ds) == [id |-> id, devstat |-> ds]

NoRecord == Record("", ZeroDevstat)

\* A raw pointer to a record, or NULL
Null == [null |-> TRUE, rec |-> NoRecord]

NonNull(rec) == [null |-> FALSE, rec |-> rec]

\* Option<Devstat> of a record of a snapshot
NoDevstat == [some |-> FALSE, rec |-> NoRecord]

SomeDevstat(rec) == [some |-> TRUE, rec |-> rec]

\* What geom_stats_snapshot_get fills in
Snapshot(recs) == [recs |-> recs, uu |-> 0, freed |-> FALSE]

\* libgeom: the record at the cursor, which moves on, or NULL at the end
geom_stats_snapshot_next(sn) ==
    IF sn.uu < Len(sn.recs)
    THEN [raw |-> NonNull(sn.recs[sn.uu + 1]), sn |-> [sn EXCEPT !.uu = @ + 1]]
    ELSE [raw |-> Null, sn |-> sn]

\* libgeom: the cursor goes back to the first record
geom_stats_snapshot_reset(sn) == [sn EXCEPT !.uu = 0]

\* libgeom: the snapshot's memory is released
geom_stats_snapshot_free(sn) == [sn EXCEPT !.freed = TRUE]

\* Snapshot::reset as it would be if it left the cursor where it is
Snapshot_reset_nowhere(sn) == sn

\* Snapshot::reset
Snapshot_reset(sn) == geom_stats_snapshot_reset(sn)

\* SnapshotIter::next: the item, and the snapshot after the call
SnapshotIter_next(sn) ==
    LET r == geom_stats_snapshot_next(sn)
    IN  [item |-> IF r.raw.null THEN NoDevstat ELSE SomeDevstat(r.raw.rec),
         sn |-> r.sn]

\* SnapshotPairIter::next as it would be if it looked the record of the
\* same device up in prev, whatever its position
SnapshotPairIter_next_by_id(cur, has_prev, prev) ==
    LET c == geom_stats_snapshot_next(cur)
        same == IF has_prev /\ ~c.raw.null
                THEN {k \in 1..Len(prev.recs) : prev.recs[k].id = c.raw.rec.id}
                ELSE {}
        ps == IF same = {} THEN NoDevstat
              ELSE SomeDevstat(prev.recs[CHOOSE k \in same : TRUE])
    IN  [some |-> ~c.raw.null,
         item |-> [cur |-> c.raw.rec, prev |-> ps],
         cur |-> c.sn,
         prev |-> IF has_prev THEN geom_stats_snapshot_next(prev).sn ELSE prev]

\* SnapshotPairIter::next as it would be if it ended with the shorter of
\* the two snapshots
SnapshotPairIter_next_zipped(cur, has_prev, prev) ==
    LET p == geom_stats_snapshot_next(prev)
        ps == IF has_prev /\ ~p.raw.null THEN SomeDevstat(p.raw.rec)
              ELSE NoDevstat
        c == geom_stats_snapshot_next(cur)
    IN  [some |-> ~c.raw.null /\ (has_prev => ~p.raw.null),
         item |-> [cur |-> c.raw.rec, prev |-> ps],
         cur |-> c.sn,
         prev |-> IF has_prev THEN p.sn ELSE prev]

\* SnapshotPairIter::next, for self.cur and self.prev (has_prev says that
\* self.prev is Some): the item, Some or None, and the two snapshots after
\* the call
SnapshotPairIter_next(cur, has_prev, prev) ==
    LET p == geom_stats_snapshot_next(prev)
        ps == IF has_prev /\ ~p.raw.null THEN SomeDevstat(p.raw.rec)
              ELSE NoDevstat
        c == geom_stats_snapshot_next(cur)
    IN  [some |-> ~c.raw.null,
         item |-> [cur |-> c.raw.rec, prev |-> ps],
         cur |-> c.sn,
         prev |-> IF has_prev THEN p.sn ELSE prev]

\* What geom_stats_snapshot_get returns: NULL, or a snapshot of recs
NullSnapshot == [null |-> TRUE, recs |-> <<>>]

RawSnapshot(recs) == [null |-> FALSE, recs |-> recs]

\* Snapshot::new.  gs is GEOM_STATS before the call, open is what
\* geom_stats_open returns if this call is the one that evaluates the lazy
\* static, raw is what geom_stats_snapshot_get returns if it is called.
\* result is "Ok" (of snapshot), "Err" or "panicked".
Snapshot_new(gs, open, raw) ==
    LET init == IF gs = "uninit" THEN (IF open # 0 THEN "Err" ELSE "Ok")
                ELSE gs
    IN  [GEOM_STATS |-> init,
         result |-> IF init = "Err" THEN "panicked"
                    ELSE IF raw.null THEN "Err" ELSE "Ok",
         open |-> init,
         get |-> IF init = "Err" THEN "not called"
                 ELSE IF raw.null THEN "null" ELSE "snapshot",
         snapshot |-> Snapshot(raw.recs)]

\* No iterator is live; nth counts the iterators made so far, and cut
\* those of them that were dropped before they had returned None
NoIterator(nth, cut) ==
    [kind |-> "none", cur |-> 0, prev |-> 0, items |-> <<>>, done |-> FALSE,
     nth |-> nth, cut |-> cut]

\* Snapshot::new has not been called
NotCalled == [result |-> "", open |-> "", get |-> ""]

\* The state of the library before any call
LibInit ==
    /\ GEOM_STATS = "uninit"
    /\ snapshots = <<>>
    /\ iterator = NoIterator(0, 0)
    /\ new_result = NotCalled

(***************************************************************************)
(* Timespec, the timestamp of a snapshot.                                  *)
(***************************************************************************)
Timespec(tv_sec, tv_nsec) == [tv_sec |-> tv_sec, tv_nsec |-> tv_nsec]

\* impl From<Timespec> for f64
Timespec_to_f64(ts) ==
    AddF(FromInt(ts.tv_sec), MulF(FromInt(ts.tv_nsec), Rat(1, 1000000000)))

\* impl Sub for Timespec
\* The subtraction as it would be with its operands exchanged
Timespec_sub_reversed(self, rhs) ==
    LET tv_sec == rhs.tv_sec - self.tv_sec
        tv_nsec == rhs.tv_nsec - self.tv_nsec
    IN  IF tv_nsec < 0 THEN Timespec(tv_sec - 1, tv_nsec + 1000000000)
        ELSE Timespec(tv_sec, tv_nsec)

Timespec_sub(self, rhs) ==
    LET tv_sec == self.tv_sec - rhs.tv_sec
        tv_nsec == self.tv_nsec - rhs.tv_nsec
    IN  IF tv_nsec < 0
        THEN Timespec(tv_sec - 1, tv_nsec + 1000000000)
        ELSE Timespec(tv_sec, tv_nsec)

(***************************************************************************)
(* gstat's DataSource and greasestat's StatefulTable: the previous         *)
(* snapshot, if any, the current one, and the items computed from them.    *)
(* Snapshots are named by their handles, 0 for none.                       *)
(***************************************************************************)
NoData == [prev |-> 0, cur |-> 0, items |-> <<>>]

NotRegenerated == [etime |-> Zero, uptime |-> Timespec(0, 0), calls |-> <<>>]

NoHistory == [compared |-> {}, released |-> {}]

\* The two programs before they start
RefreshInit ==
    /\ data = NoData
    /\ ss = 0
    /\ rpc = "start"
    /\ refresh_result = ""
    /\ timestamps = <<>>
    /\ clock = Timespec(0, 0)
    /\ regenerated = NotRegenerated
    /\ before = NoData
    /\ history = NoHistory
    /\ refreshes = 0

(***************************************************************************)
(* gstat's widgets: StatefulTable, the table of the devices, and Columns,  *)
(* the selector of the columns.  An Option<usize> is [some, i].            *)
(***************************************************************************)
NoIndex == [some |-> FALSE, i |-> 0]

SomeIndex(i) == [some |-> TRUE, i |-> i]

\* StatefulTable::default()
StatefulTable_default == [state |-> [selected |-> NoIndex], len |-> 0]

\* usize::saturating_sub
saturating_sub(a, b) == IF a >= b THEN a - b ELSE 0

\* usize::checked_sub
checked_sub(a, b) == IF a >= b THEN SomeIndex(a - b) ELSE NoIndex

\* StatefulTable::next as it would be if it wrapped from the last row to
\* the first
StatefulTable_next_wrapping(self) ==
    LET selected == self.state.selected
        s == IF selected.some
             THEN IF selected.i >= saturating_sub(self.len, 1)
                  THEN SomeIndex(0)
                  ELSE SomeIndex(selected.i + 1)
             ELSE IF self.len > 0 THEN SomeIndex(0) ELSE NoIndex
    IN  [self EXCEPT !.state.selected = s]

\* StatefulTable::next
StatefulTable_next(self) ==
    LET selected == self.state.selected
        s == IF selected.some
             THEN IF selected.i >= saturating_sub(self.len, 1)
                  THEN NoIndex
                  ELSE SomeIndex(selected.i + 1)
             ELSE IF self.len > 0 THEN SomeIndex(0) ELSE NoIndex
    IN  [self EXCEPT !.state.selected = s]

\* StatefulTable::previous
StatefulTable_previous(self) ==
    LET selected == self.state.selected
        s == IF selected.some
             THEN IF selected.i = 0 THEN NoIndex
                  ELSE SomeIndex(selected.i - 1)
             ELSE checked_sub(self.len, 1)
    IN  [self EXCEPT !.state.selected = s]

\* StatefulTable::table: the table takes the length of the rows
StatefulTable_table(self, rows) == [self EXCEPT !.len = Len(rows)]

\* Columns::LEN
LEN == 18

\* Columns::DEFAULT_ENABLED, 0x30377
DEFAULT_ENABLED == 197495

\* The indices of the columns
QD == 0
OPS_S == 1
R_S == 2
KB_R == 3
KBS_R == 4
MS_R == 5
W_S == 6
KB_W == 7
KBS_W == 8
MS_W == 9
D_S == 10
KB_D == 11
KBS_D == 12
MS_D == 13
O_S == 14
MS_O == 15
PCT_BUSY == 16
NAME == 17

\* A bit of a ColumnsEnabled, a u32: its getter, its setter to true, and
\* the ^= 1 << i of main
Bit(bits, i) == (bits \div (2 ^ i)) % 2 = 1

SetBit(bits, i) == IF Bit(bits, i) THEN bits ELSE bits + 2 ^ i

XorBit(bits, i) == IF Bit(bits, i) THEN bits - 2 ^ i ELSE bits + 2 ^ i

\* An Option<ColumnsEnabled>
NoColumnsEnabled == [some |-> FALSE, bits |-> 0]

SomeColumnsEnabled(bits) == [some |-> TRUE, bits |-> bits]

\* The headers of the columns, character by character
Headers ==
    [i \in 0..(LEN - 1) |->
        CASE i = QD -> <<"L", "(", "q", ")">>
          [] i = OPS_S -> <<" ", "o", "p", "s", "/", "s">>
          [] i = R_S -> <<" ", " ", " ", "r", "/", "s">>
          [] i = KB_R -> <<"k", "B", "/", "r">>
          [] i = KBS_R -> <<"k", "B", "/", "s", " ", "r">>
          [] i = MS_R -> <<" ", " ", "m", "s", "/", "r">>
          [] i = W_S -> <<" ", " ", " ", "w", "/", "s">>
          [] i = KB_W -> <<"k", "B", "/", "w">>
          [] i = KBS_W -> <<"k", "B", "/", "s", " ", "w">>
          [] i = MS_W -> <<" ", " ", "m", "s", "/", "w">>
          [] i = D_S -> <<" ", " ", " ", "d", "/", "s">>
          [] i = KB_D -> <<"k", "B", "/", "d">>
          [] i = KBS_D -> <<"k", "B", "/", "s", " ", "d">>
          [] i = MS_D -> <<" ", " ", "m", "s", "/", "d">>
          [] i = O_S -> <<" ", " ", " ", "o", "/", "s">>
          [] i = MS_O -> <<" ", " ", "m", "s", "/", "o">>
          [] i = PCT_BUSY -> <<" ", "%", "b", "u", "s", "y">>
          [] OTHER -> <<"N", "a", "m", "e">>]

\* Column::new
Column_new(header, enabled) == [header |-> header, enabled |-> enabled]

\* Columns::new as it would be if it did not write the switches back to cfg
Columns_new_without_write_back(c) ==
    LET cb0 == IF c.columns.some THEN c.columns.bits ELSE DEFAULT_ENABLED
        cb1 == IF c.delete
               THEN SetBit(SetBit(SetBit(cb0, D_S), KBS_D), MS_D)
               ELSE cb0
        cb2 == IF c.other THEN SetBit(SetBit(cb1, O_S), MS_O) ELSE cb1
        cb3 == IF c.delete /\ c.size THEN SetBit(cb2, KB_D) ELSE cb2
        cb == IF c.size THEN SetBit(SetBit(cb3, KB_R), KB_W) ELSE cb3
    IN  [cfg |-> [c EXCEPT !.columns = SomeColumnsEnabled(cb0)],
         columns |->
            [cols |-> [i \in 0..(LEN - 1) |->
                        Column_new(Headers[i], Bit(cb, i))],
             state |-> [selected |-> SomeIndex(0)]]]

\* Columns::new: cfg after the call, and the Columns
Columns_new(c) ==
    LET cb0 == IF c.columns.some THEN c.columns.bits ELSE DEFAULT_ENABLED
        cb1 == IF c.delete
               THEN SetBit(SetBit(SetBit(cb0, D_S), KBS_D), MS_D)
               ELSE cb0
        cb2 == IF c.other THEN SetBit(SetBit(cb1, O_S), MS_O) ELSE cb1
        cb3 == IF c.delete /\ c.size THEN SetBit(cb2, KB_D) ELSE cb2
        cb == IF c.size THEN SetBit(SetBit(cb3, KB_R), KB_W) ELSE cb3
    IN  [cfg |-> [c EXCEPT !.columns = SomeColumnsEnabled(cb)],
         columns |->
            [cols |-> [i \in 0..(LEN - 1) |->
                        Column_new(Headers[i], Bit(cb, i))],
             state |-> [selected |-> SomeIndex(0)]]]

\* Columns::next; the unwrap of a selection that is None panics
Columns_next(self) ==
    IF ~self.state.selected.some THEN [panicked |-> TRUE, self |-> self]
    ELSE [panicked |-> FALSE,
          self |-> [self EXCEPT !.state.selected =
                        SomeIndex((self.state.selected.i + 1) % LEN)]]

\* isize::rem_euclid, for a positive rhs
rem_euclid(a, b) == a % b

\* The % of Rust, which truncates: the remainder has the sign of a
rem_truncated(a, b) == IF a >= 0 THEN a % b ELSE 0 - ((0 - a) % b)

\* Columns::previous as it would be with % in the place of rem_euclid
Columns_previous_truncating(self) ==
    IF ~self.state.selected.some THEN [panicked |-> TRUE, self |-> self]
    ELSE [panicked |-> FALSE,
          self |-> [self EXCEPT !.state.selected =
                        SomeIndex(rem_truncated(self.state.selected.i - 1,
                                                LEN))]]

\* Columns::previous
Columns_previous(self) ==
    IF ~self.state.selected.some THEN [panicked |-> TRUE, self |-> self]
    ELSE [panicked |-> FALSE,
          self |-> [self EXCEPT !.state.selected =
                        SomeIndex(rem_euclid(self.state.selected.i - 1,
                                             LEN))]]

\* An Option<String>, the string character by character
NoString == [some |-> FALSE, chars |-> <<>>]

SomeString(chars) == [some |-> TRUE, chars |-> chars]

\* An Option<Duration>, in microseconds
NoDuration == [some |-> FALSE, micros |-> 0]

SomeDuration(micros) == [some |-> TRUE, micros |-> micros]

\* Cli::default(): every switch off, every option None
Cli_default ==
    [auto |-> FALSE, delete |-> FALSE, filter |-> NoString, other |-> FALSE,
     size |-> FALSE, physical |-> FALSE, reset_config |-> FALSE,
     reverse |-> FALSE, sort |-> NoString, columns |-> NoColumnsEnabled,
     interval |-> NoDuration]

\* deinterleave: containers, a Vec of n Vecs, after the items from the
\* i-th on (i counts from 0) were placed
RECURSIVE deinterleave_from(_, _, _, _)
deinterleave_from(containers, items, i, n) ==
    IF i >= Len(items) THEN containers
    ELSE deinterleave_from(
            [containers EXCEPT ![(i % n) + 1] = Append(@, items[i + 1])],
            items, i + 1, n)

\* IteratorExt::deinterleave as it would be if it filled one container
\* before the next
deinterleave_in_blocks(items, n) ==
    [c \in 1..n |->
        LET per == (Len(items) + n - 1) \div n
        IN  [k \in 1..(IF c * per <= Len(items) THEN per
                       ELSE IF (c - 1) * per >= Len(items) THEN 0
                       ELSE Len(items) - (c - 1) * per) |->
                items[(c - 1) * per + k]]]

\* IteratorExt::deinterleave, for containers that are Vecs
deinterleave(items, n) ==
    deinterleave_from([c \in 1..n |-> <<>>], items, 0, n)

NotDeinterleaved == [items |-> <<>>, n |-> 1, containers |-> <<>>]

\* The widgets and main before gstat starts
UiInit ==
    /\ table = StatefulTable_default
    /\ columns = [cols |-> <<>>, state |-> [selected |-> NoIndex]]
    /\ cfg = Cli_default
    /\ main = [pc |-> "start"]
    /\ deinterleaved = NotDeinterleaved
    /\ called = ""

\* The exporter before its first scrape
ExporterInit ==
    /\ cli = [physical |-> FALSE, include |-> {}, has_include |-> FALSE,
              exclude |-> {}, has_exclude |-> FALSE]
    /\ registry = [f \in {} |-> {}]
    /\ response = ""

(***************************************************************************)
(* The inputs compute is applied to.  Three families, each varying some    *)
(* fields of the two records over the extreme and the typical values of    *)
(* their types.                                                            *)
(***************************************************************************)
TimeVals ==
    [sec : {SecMin, -1, 0, 1, SecMax},
     frac : {0, FracMod \div 4, FracMod \div 2, FracMax}]

\* ds with its busy time, or the duration of every class, set to t
WithTime(ds, which, t) ==
    IF which = "busy_time"
    THEN [ds EXCEPT !.busy_time = t]
    ELSE [ds EXCEPT !.duration = [c \in Classes |-> t]]

TimeInputs ==
    UNION { { [cur |-> WithTime(ZeroDevstat, w, a), prev |-> p] :
                a \in TimeVals,
                p \in {None} \cup
                      {Some(WithTime(ZeroDevstat, w, b)) : b \in TimeVals} } :
            w \in {"busy_time", "duration"} }

Quarter == [sec |-> 0, frac |-> FracMod \div 4]
Half == [sec |-> 0, frac |-> FracMod \div 2]

ExampleCur ==
    [ZeroDevstat EXCEPT !.operations["READ"] = 1000,
                        !.bytes["READ"] = 4096000,
                        !.duration["READ"] = [sec |-> 2, frac |-> 0],
                        !.block_size = 512]

ExamplePrev ==
    [ZeroDevstat EXCEPT !.operations["READ"] = 500,
                        !.bytes["READ"] = 2048000,
                        !.duration["READ"] = [sec |-> 1, frac |-> 0],
                        !.block_size = 512]

MixedA ==
    [operations |-> [NO_DATA |-> 2, READ |-> 3, WRITE |-> 5, FREE |-> 1],
     bytes |-> [NO_DATA |-> 512, READ |-> 12288, WRITE |-> 40960,
                FREE |-> 4096],
     duration |-> [NO_DATA |-> Quarter, READ |-> [sec |-> 1, frac |-> 0],
                   WRITE |-> [sec |-> 1, frac |-> FracMod \div 2],
                   FREE |-> Half],
     busy_time |-> [sec |-> 2, frac |-> 0],
     start_count |-> 11,
     end_count |-> 9,
     block_size |-> 2048]

MixedB ==
    [operations |-> [NO_DATA |-> 2, READ |-> 7, WRITE |-> 5, FREE |-> 4],
     bytes |-> [NO_DATA |-> 1536, READ |-> 45056, WRITE |-> 43008,
                FREE |-> 16384],
     duration |-> [NO_DATA |-> Half, READ |-> [sec |-> 3, frac |-> FracMod \div 4],
                   WRITE |-> [sec |-> 2, frac |-> 0],
                   FREE |-> [sec |-> 1, frac |-> FracMod \div 4]],
     busy_time |-> [sec |-> 5, frac |-> FracMod \div 2],
     start_count |-> 20,
     end_count |-> 20,
     block_size |-> 1024]

Huge ==
    [operations |-> [c \in Classes |-> U64Max],
     bytes |-> [c \in Classes |-> U64Max],
     duration |-> [c \in Classes |-> [sec |-> SecMax, frac |-> FracMax]],
     busy_time |-> [sec |-> SecMax, frac |-> FracMax],
     start_count |-> U32Max,
     end_count |-> 0,
     block_size |-> U32Max]

Profiles == {ZeroDevstat, ExampleCur, ExamplePrev, MixedA, MixedB, Huge}

BlockSizes == {0, 512, 4096}

CounterInputs ==
    { [cur |-> [c EXCEPT !.block_size = bs], prev |-> p] :
        c \in Profiles, bs \in BlockSizes,
        p \in {None} \cup {Some(q) : q \in Profiles} }

QueueCounts == {0, 1, 2, U32Max}

QueueInputs ==
    { [cur |-> [ZeroDevstat EXCEPT !.start_count = s, !.end_count = e],
       prev |-> None] : s \in QueueCounts, e \in QueueCounts }

Inputs == TimeInputs \cup CounterInputs \cup QueueInputs

Etimes == {FromInt(0), Rat(1, 2), FromInt(10), FromInt(-1)}

NoCall == [meth |-> "", panicked |-> FALSE, val |-> 0]

Init ==
    /\ overflow_checks \in BOOLEAN
    /\ \E i \in Inputs : current = i.cur /\ previous = i.prev
    /\ etime \in Etimes
    /\ pc = "start"
    /\ stats = compute(ZeroDevstat, None, Zero).st
    /\ ret = NoCall
    /\ LibInit
    /\ program = "gstat"
    /\ RefreshInit
    /\ UiInit
    /\ ExporterInit

(***************************************************************************)
(* The operations: compute, then an accessor of the struct it returned.    *)
(* The accessors take &self and change nothing, so a run calls one: a      *)
(* later call would return what it returns when called first.  A panic     *)
(* ends the run.                                                           *)
(***************************************************************************)
Compute ==
    /\ pc = "start"
    /\ LET r == compute(current, previous, etime)
       IN  /\ pc' = IF r.panicked THEN "panicked" ELSE "computed"
           /\ stats' = IF r.panicked THEN stats ELSE r.st
    /\ UNCHANGED <<current, previous, etime, overflow_checks, ret>>
    /\ UNCHANGED notStatsVars

Returns(m, v) ==
    /\ pc = "computed"
    /\ ret' = [meth |-> m, panicked |-> FALSE, val |-> v]
    /\ pc' = "called"
    /\ UNCHANGED <<current, previous, etime, overflow_checks, stats>>
    /\ UNCHANGED notStatsVars

ReturnsOrPanics(m, r) ==
    /\ pc = "computed"
    /\ ret' = [meth |-> m, panicked |-> r.panicked,
               val |-> IF r.panicked THEN 0 ELSE r.val]
    /\ pc' = IF r.panicked THEN "panicked" ELSE "called"
    /\ UNCHANGED <<current, previous, etime, overflow_checks, stats>>
    /\ UNCHANGED notStatsVars

Fields == \E m \in FieldsMethods : Returns(m, fields(stats, m))

FieldsPerSec ==
    \E m \in DOMAIN FieldsPerSecMethods :
        Returns(m, fields_per_sec(stats, FieldsPerSecMethods[m]))

KbPerXfer ==
    \E m \in DOMAIN KbPerXferMethods :
        Returns(m, kb_per_xfer(stats, KbPerXferMethods[m][1],
                               KbPerXferMethods[m][2]))

MbPerSec ==
    \E m \in DOMAIN MbPerSecMethods :
        Returns(m, mb_per_sec(stats, MbPerSecMethods[m]))

MsPerXfer ==
    \E m \in DOMAIN MsPerXferMethods :
        Returns(m, ms_per_xfer(stats, MsPerXferMethods[m][1],
                               MsPerXferMethods[m][2]))

MsPerXferDuration ==
    \E m \in DOMAIN MsPerXferMethods :
        Returns(MsPerXferMethods[m][2],
                ms_per_xfer_duration(stats, MsPerXferMethods[m][2]))

BusyTime == Returns("busy_time", busy_time(stats))

BusyPct == ReturnsOrPanics("busy_pct", busy_pct(stats))

QueueLength == ReturnsOrPanics("queue_length", queue_length(stats))

Next ==
    \/ Compute
    \/ Fields
    \/ FieldsPerSec
    \/ KbPerXfer
    \/ MbPerSec
    \/ MsPerXfer
    \/ MsPerXferDuration
    \/ BusyTime
    \/ BusyPct
    \/ QueueLength

Spec == Init /\ [][Next]_vars

(***************************************************************************)
(* A client of the snapshots: it makes snapshots, and iterates over one    *)
(* or over a pair of them, one iterator at a time, dropping an iterator    *)
(* at any point of its iteration.                                          *)
(***************************************************************************)
MaxSnapshots == 2

MaxIterators == 3

Devices == {"ada0", "ada1", "cd0"}

\* The record of device id in the kernel's n-th list
Rec(id, n) == Record(id, [ZeroDevstat EXCEPT !.operations["READ"] = n])

\* Lists of records the kernel may give: of different lengths, and with
\* the devices at different positions
KernelLists ==
    {<<>>,
     <<Rec("ada0", 1), Rec("ada1", 1)>>,
     <<Rec("ada1", 2), Rec("cd0", 2), Rec("ada0", 2)>>}

\* The statistics engine at rest
StatsIdle ==
    /\ current = ZeroDevstat
    /\ previous = None
    /\ etime = Zero
    /\ overflow_checks = FALSE
    /\ pc = "start"
    /\ stats = compute(ZeroDevstat, None, Zero).st
    /\ ret = NoCall

InitLib ==
    /\ StatsIdle
    /\ LibInit
    /\ program = "gstat"
    /\ RefreshInit
    /\ UiInit
    /\ ExporterInit

Live(h) == h \in DOMAIN snapshots /\ ~snapshots[h].freed

SnapshotNew ==
    /\ new_result.result # "panicked"
    /\ Len(snapshots) < MaxSnapshots
    /\ \E open \in {0, -1}, raw \in {NullSnapshot} \cup
                                     {RawSnapshot(l) : l \in KernelLists} :
            LET r == Snapshot_new(GEOM_STATS, open, raw)
            IN  /\ GEOM_STATS' = r.GEOM_STATS
                /\ new_result' = [result |-> r.result, open |-> r.open,
                                  get |-> r.get]
                /\ snapshots' = IF r.result = "Ok"
                                THEN Append(snapshots, r.snapshot)
                                ELSE snapshots
    /\ UNCHANGED <<iterator, notLibVars>>

\* Snapshot::iter
Iter ==
    /\ iterator.kind = "none"
    /\ iterator.nth < MaxIterators
    /\ \E h \in DOMAIN snapshots :
            /\ Live(h)
            /\ iterator' = [kind |-> "iter", cur |-> h, prev |-> 0,
                            items |-> <<>>, done |-> FALSE,
                            nth |-> iterator.nth + 1, cut |-> iterator.cut]
    /\ UNCHANGED <<GEOM_STATS, snapshots, new_result, notLibVars>>

\* Snapshot::iter_pair, prev = 0 for None
IterPair ==
    /\ iterator.kind = "none"
    /\ iterator.nth < MaxIterators
    /\ \E c \in DOMAIN snapshots, p \in {0} \cup DOMAIN snapshots :
            /\ Live(c)
            /\ p # c
            /\ p # 0 => Live(p)
            /\ iterator' = [kind |-> "pair", cur |-> c, prev |-> p,
                            items |-> <<>>, done |-> FALSE,
                            nth |-> iterator.nth + 1, cut |-> iterator.cut]
    /\ UNCHANGED <<GEOM_STATS, snapshots, new_result, notLibVars>>

\* SnapshotIter::next
IterNext ==
    /\ iterator.kind = "iter"
    /\ LET r == SnapshotIter_next(snapshots[iterator.cur])
       IN  /\ snapshots' = [snapshots EXCEPT ![iterator.cur] = r.sn]
           /\ iterator' =
                [iterator EXCEPT
                    !.items = IF r.item.some THEN Append(@, r.item.rec) ELSE @,
                    !.done = ~r.item.some]
    /\ UNCHANGED <<GEOM_STATS, new_result, notLibVars>>

\* SnapshotPairIter::next
PairNext ==
    /\ iterator.kind = "pair"
    /\ LET has_prev == iterator.prev # 0
           prev == IF has_prev THEN snapshots[iterator.prev]
                   ELSE Snapshot(<<>>)
           r == SnapshotPairIter_next(snapshots[iterator.cur], has_prev, prev)
       IN  /\ snapshots' =
                [h \in DOMAIN snapshots |->
                    IF h = iterator.cur THEN r.cur
                    ELSE IF h = iterator.prev THEN r.prev
                    ELSE snapshots[h]]
           /\ iterator' =
                [iterator EXCEPT
                    !.items = IF r.some THEN Append(@, r.item) ELSE @,
                    !.done = ~r.some]
    /\ UNCHANGED <<GEOM_STATS, new_result, notLibVars>>

\* Drop for SnapshotIter
IterDrop ==
    /\ iterator.kind = "iter"
    /\ snapshots' = [snapshots EXCEPT ![iterator.cur] = Snapshot_reset(@)]
    /\ iterator' = NoIterator(iterator.nth,
                              IF iterator.done THEN iterator.cut
                              ELSE iterator.cut + 1)
    /\ UNCHANGED <<GEOM_STATS, new_result, notLibVars>>

\* Drop for SnapshotPairIter
PairDrop ==
    /\ iterator.kind = "pair"
    /\ snapshots' =
            [h \in DOMAIN snapshots |->
                IF h = iterator.cur \/ h = iterator.prev
                THEN Snapshot_reset(snapshots[h])
                ELSE snapshots[h]]
    /\ iterator' = NoIterator(iterator.nth,
                              IF iterator.done THEN iterator.cut
                              ELSE iterator.cut + 1)
    /\ UNCHANGED <<GEOM_STATS, new_result, notLibVars>>

NextLib ==
    \/ SnapshotNew
    \/ Iter
    \/ IterPair
    \/ IterNext
    \/ PairNext
    \/ IterDrop
    \/ PairDrop

SpecLib == InitLib /\ [][NextLib]_vars

(***************************************************************************)
(* gstat and greasestat: DataSource::new / StatefulTable::new, then        *)
(* refresh on every tick.  A refresh is two steps, the acquisition of the  *)
(* new snapshot and its installation, with what follows it.                *)
(***************************************************************************)
MaxRefreshes == 3

\* The geom tree: what Tree::lookup finds for a device id
GeomTree ==
    [ada0 |-> [what |-> "provider", has_geom |-> TRUE, rank |-> 1],
     ada1 |-> [what |-> "provider", has_geom |-> TRUE, rank |-> 2],
     cd0 |-> [what |-> "consumer", has_geom |-> FALSE, rank |-> 0]]

\* Tree::lookup: Some(gident) or None
Tree_lookup(id) ==
    IF id \in DOMAIN GeomTree
    THEN [some |-> TRUE, gident |-> GeomTree[id], name |-> id]
    ELSE [some |-> FALSE, gident |-> GeomTree.cd0, name |-> ""]

\* Gident::rank: Some(rank) or None
Gident_rank(gident) ==
    IF gident.what # "provider" THEN [some |-> FALSE, rank |-> 0]
    ELSE IF ~gident.has_geom THEN [some |-> FALSE, rank |-> 0]
    ELSE [some |-> TRUE, rank |-> gident.rank]

\* The record of device id in the kernel's n-th snapshot: counters that grow
\* with n, at a pace k
KernelRecord(id, n, k) ==
    Record(id,
        [operations |-> [NO_DATA |-> 0, READ |-> 8 * n * k,
                         WRITE |-> 4 * n * k, FREE |-> 0],
         bytes |-> [NO_DATA |-> 0, READ |-> 4096 * 8 * n * k,
                    WRITE |-> 4096 * 4 * n * k, FREE |-> 0],
         duration |-> [NO_DATA |-> ZeroBintime,
                       READ |-> [sec |-> n, frac |-> k * (FracMod \div 4)],
                       WRITE |-> [sec |-> 0, frac |-> 0],
                       FREE |-> ZeroBintime],
         busy_time |-> [sec |-> n, frac |-> 0],
         start_count |-> 2 * n + k,
         end_count |-> 2 * n,
         block_size |-> 512])

\* The kernel's n-th snapshot
KernelRecs(n) ==
    <<KernelRecord("ada0", n, 1), KernelRecord("ada1", n, 2),
      KernelRecord("cd0", n, 0)>>

\* The time that passes between two snapshots
ClockSteps == {Timespec(0, 500000000), Timespec(0, 750000000),
               Timespec(1, 250000000)}

\* The kernel's clock, a step later
ClockAfter(now, step) ==
    IF now.tv_nsec + step.tv_nsec >= 1000000000
    THEN Timespec(now.tv_sec + step.tv_sec + 1,
                  now.tv_nsec + step.tv_nsec - 1000000000)
    ELSE Timespec(now.tv_sec + step.tv_sec, now.tv_nsec + step.tv_nsec)

\* What clock_gettime(CLOCK_UPTIME) returns
Uptimes ==
    {[ok |-> FALSE, ts |-> Timespec(0, 0)],
     [ok |-> TRUE, ts |-> Timespec(100, 500000000)]}

\* gstat's Element::new
Element_new(name, rank, st) ==
    [qd |-> queue_length(st).val,
     ops_s |-> fields_per_sec(st, "total_transfers"),
     r_s |-> fields_per_sec(st, "total_transfers_read"),
     kb_r |-> kb_per_xfer(st, "total_transfers_read", "total_bytes"),
     kbs_r |-> MulF(mb_per_sec(st, "total_bytes_read"), FromInt(1024)),
     ms_r |-> ms_per_xfer(st, "total_transfers_read", "total_duration_read"),
     w_s |-> fields_per_sec(st, "total_transfers_write"),
     kb_w |-> kb_per_xfer(st, "total_transfers_write", "total_bytes"),
     kbs_w |-> MulF(mb_per_sec(st, "total_bytes_write"), FromInt(1024)),
     ms_w |-> ms_per_xfer(st, "total_transfers_write",
                          "total_duration_write"),
     d_s |-> fields_per_sec(st, "total_transfers_free"),
     kb_d |-> kb_per_xfer(st, "total_transfers_free", "total_bytes"),
     kbs_d |-> MulF(mb_per_sec(st, "total_bytes_free"), FromInt(1024)),
     ms_d |-> ms_per_xfer(st, "total_transfers_free", "total_duration_free"),
     o_s |-> fields_per_sec(st, "total_transfers_other"),
     ms_o |-> ms_per_xfer(st, "total_transfers_other",
                          "total_duration_other"),
     pct_busy |-> busy_pct(st).val,
     name |-> name,
     rank |-> rank]

\* greasestat's Element
Element(name, st) ==
    [name |-> name,
     qd |-> queue_length(st).val,
     ops_s |-> fields_per_sec(st, "total_transfers"),
     r_s |-> fields_per_sec(st, "total_transfers_read"),
     kbps_r |-> MulF(mb_per_sec(st, "total_bytes_read"), FromInt(1024)),
     ms_r |-> ms_per_xfer(st, "total_transfers_read", "total_duration_read"),
     w_s |-> fields_per_sec(st, "total_transfers_write"),
     kbps_w |-> MulF(mb_per_sec(st, "total_bytes_write"), FromInt(1024)),
     ms_w |-> ms_per_xfer(st, "total_transfers_write",
                          "total_duration_write"),
     pct_busy |-> busy_pct(st).val]

\* The items SnapshotPairIter yields from the cursors of cur and prev on,
\* until its next returns None
RECURSIVE PairItems(_, _, _)
PairItems(cur, has_prev, prev) ==
    LET r == SnapshotPairIter_next(cur, has_prev, prev)
    IN  IF r.some THEN <<r.item>> \o PairItems(r.cur, has_prev, r.prev)
        ELSE <<>>

\* regen's test of an item: the tree knows its device, which has a rank
Ranked(item) ==
    /\ Tree_lookup(item.cur.id).some
    /\ Gident_rank(Tree_lookup(item.cur.id).gident).some

\* regen's etime: ok is FALSE when clock_gettime fails.  uptime is what
\* clock_gettime returns if it is called.
regen_etime(prog, self, stamps, uptime) ==
    IF self.prev # 0
    THEN [ok |-> TRUE,
          val |-> Timespec_to_f64(Timespec_sub(stamps[self.cur],
                                               stamps[self.prev]))]
    ELSE IF prog = "gstat"
    THEN [ok |-> uptime.ok, val |-> Timespec_to_f64(uptime.ts)]
    ELSE [ok |-> TRUE, val |-> FromInt(1)]

\* The arguments of regen's call of Statistics::compute for an item
regen_call(item, et) ==
    [cur |-> item.cur.devstat,
     prev |-> IF item.prev.some THEN Some(item.prev.rec.devstat) ELSE None,
     etime |-> et]

\* The body of regen's loop for an item: call is the call of compute and
\* computed what it returned
regen_push(prog, item, call, computed) ==
    LET gident == Tree_lookup(item.cur.id)
    IN  [call |-> call,
         panicked |-> \/ computed.panicked
                      \/ queue_length(computed.st).panicked
                      \/ busy_pct(computed.st).panicked,
         elem |-> IF prog = "gstat"
                  THEN Element_new(gident.name,
                                   Gident_rank(gident.gident).rank,
                                   computed.st)
                  ELSE Element(gident.name, computed.st)]

\* What regen leaves: pushed is what its loop did, item by item
regen_result(self, et, pushed) ==
    [result |-> IF ~et.ok THEN "Err"
                ELSE IF \E k \in 1..Len(pushed) : pushed[k].panicked
                THEN "panicked"
                ELSE "Ok",
     etime |-> et.val,
     calls |-> IF et.ok THEN [k \in 1..Len(pushed) |-> pushed[k].call]
               ELSE <<>>,
     items |-> IF et.ok THEN [k \in 1..Len(pushed) |-> pushed[k].elem]
               ELSE self.items]

\* regen, of gstat's DataSource and of greasestat's StatefulTable.  calls
\* are its calls of Statistics::compute.
regen(prog, self, snaps, stamps, uptime) ==
    LET prev == IF self.prev # 0 THEN snaps[self.prev] ELSE Snapshot(<<>>)
        pairs == SelectSeq(PairItems(snaps[self.cur], self.prev # 0, prev),
                           Ranked)
        et == regen_etime(prog, self, stamps, uptime)
    IN  regen_result(self, et,
            [k \in 1..Len(pairs) |->
                LET call == regen_call(pairs[k], et.val)
                IN  regen_push(prog, pairs[k], call,
                               compute(call.cur, call.prev, call.etime))])

\* refresh as it would be if it installed cur as prev before it acquired
\* the new snapshot
refresh_installing_first(self, acquired, new) ==
    IF acquired = "Ok"
    THEN [self |-> [self EXCEPT !.prev = self.cur, !.cur = new],
          dropped |-> self.prev]
    ELSE [self |-> [self EXCEPT !.prev = self.cur], dropped |-> self.prev]

\* refresh, up to its call of regen: acquired is how Snapshot::new ended
\* and new its snapshot.  dropped is the snapshot that the assignment to
\* self.prev drops.
refresh(self, acquired, new) ==
    IF acquired = "Ok"
    THEN [self |-> [self EXCEPT !.prev = self.cur, !.cur = new],
          dropped |-> self.prev]
    ELSE [self |-> self, dropped |-> 0]

\* The program starts: either of the two, built with or without overflow
\* checks
InitRefresh ==
    /\ current = ZeroDevstat
    /\ previous = None
    /\ etime = Zero
    /\ overflow_checks \in BOOLEAN
    /\ pc = "start"
    /\ stats = compute(ZeroDevstat, None, Zero).st
    /\ ret = NoCall
    /\ LibInit
    /\ program \in {"gstat", "greasestat"}
    /\ RefreshInit
    /\ UiInit
    /\ ExporterInit

\* What the kernel hands to the next geom_stats_snapshot_get
NextRaw == {NullSnapshot, RawSnapshot(KernelRecs(Len(snapshots) + 1))}

\* clock_gettime was not called
NoUptime == [ok |-> FALSE, ts |-> Timespec(0, 0)]

\* regen has run on self and returned g: its outcome.  A data source that
\* is not returned, or is unwound, is dropped with its snapshots.
Regenerated(self, snaps, up, g) ==
    /\ regenerated' = [etime |-> g.etime, uptime |-> up, calls |-> g.calls]
    /\ rpc' = IF g.result = "Ok" THEN "idle"
              ELSE IF g.result = "Err" THEN "failed"
              ELSE "panicked"
    /\ data' = IF g.result = "Err" THEN data
               ELSE [self EXCEPT !.items = g.items]
    /\ snapshots' = IF g.result = "Ok" THEN snaps
                    ELSE [h \in DOMAIN snaps |->
                            geom_stats_snapshot_free(snaps[h])]

\* DataSource::new of gstat, StatefulTable::new of greasestat
New ==
    /\ rpc = "start"
    /\ \E gettree \in {0, -1}, open \in {0, -1}, raw \in NextRaw,
          step \in ClockSteps, uptime \in Uptimes :
        LET r == Snapshot_new(GEOM_STATS, open, raw)
            self == [prev |-> 0, cur |-> Len(snapshots) + 1, items |-> <<>>]
        IN  IF gettree # 0
            THEN /\ rpc' = "failed"
                 /\ UNCHANGED <<GEOM_STATS, new_result, snapshots, timestamps,
                                clock, data, regenerated>>
            ELSE IF r.result # "Ok"
            THEN /\ rpc' = IF r.result = "Err" THEN "failed" ELSE "panicked"
                 /\ GEOM_STATS' = r.GEOM_STATS
                 /\ new_result' = [result |-> r.result, open |-> r.open,
                                   get |-> r.get]
                 /\ UNCHANGED <<snapshots, timestamps, clock, data,
                                regenerated>>
            ELSE /\ GEOM_STATS' = r.GEOM_STATS
                 /\ new_result' = [result |-> r.result, open |-> r.open,
                                   get |-> r.get]
                 /\ timestamps' = Append(timestamps, ClockAfter(clock, step))
                 /\ clock' = ClockAfter(clock, step)
                 /\ Regenerated(self, Append(snapshots, r.snapshot),
                        uptime.ts,
                        regen(program, self, Append(snapshots, r.snapshot),
                              Append(timestamps, ClockAfter(clock, step)),
                              uptime))
    /\ UNCHANGED <<program, ss, refresh_result, before, history, refreshes,
                   iterator, statsVars, uiVars, exporterVars>>

\* refresh, first step: Snapshot::new, and the return of its error
RefreshAcquire ==
    /\ rpc = "idle"
    /\ refreshes < MaxRefreshes
    /\ \E open \in {0, -1}, raw \in NextRaw, step \in ClockSteps :
        LET r == Snapshot_new(GEOM_STATS, open, raw)
        IN  /\ before' = data
            /\ GEOM_STATS' = r.GEOM_STATS
            /\ new_result' = [result |-> r.result, open |-> r.open,
                              get |-> r.get]
            /\ IF r.result = "Ok"
               THEN /\ snapshots' = Append(snapshots, r.snapshot)
                    /\ timestamps' =
                            Append(timestamps, ClockAfter(clock, step))
                    /\ clock' = ClockAfter(clock, step)
                    /\ ss' = Len(snapshots) + 1
                    /\ rpc' = "acquired"
                    /\ UNCHANGED <<data, refresh_result>>
               ELSE /\ data' = refresh(data, r.result, 0).self
                    /\ refresh_result' = r.result
                    /\ rpc' = IF r.result = "Err" THEN "idle" ELSE "panicked"
                    /\ UNCHANGED <<snapshots, timestamps, clock, ss>>
    /\ UNCHANGED <<program, regenerated, history, refreshes, iterator,
                   statsVars, uiVars, exporterVars>>

\* The snapshots once the assignment to self.prev has dropped one
Dropped(snaps, dropped) ==
    IF dropped # 0
    THEN [snaps EXCEPT ![dropped] = geom_stats_snapshot_free(@)]
    ELSE snaps

\* refresh, second step: the new snapshot becomes cur, cur becomes prev and
\* the older prev is dropped, then regen
RefreshInstall ==
    /\ rpc = "acquired"
    /\ LET f == refresh(data, "Ok", ss)
       IN  /\ Regenerated(f.self, Dropped(snapshots, f.dropped),
                  regenerated.uptime,
                  regen(program, f.self, Dropped(snapshots, f.dropped),
                        timestamps, NoUptime))
           /\ history' =
                [compared |-> history.compared \cup
                    {f.self.prev : k \in {j \in 1..Len(regenerated'.calls) :
                                            regenerated'.calls[j].prev.some}},
                 released |-> history.released \cup ({f.dropped} \ {0})]
    /\ refresh_result' = IF rpc' = "idle" THEN "Ok" ELSE "panicked"
    /\ ss' = 0
    /\ refreshes' = refreshes + 1
    /\ UNCHANGED <<program, GEOM_STATS, new_result, timestamps, clock,
                   before, iterator, statsVars, uiVars, exporterVars>>

\* main returns the error of refresh
MainReturns ==
    /\ rpc = "idle"
    /\ refresh_result = "Err"
    /\ rpc' = "failed"
    /\ UNCHANGED <<program, data, ss, refresh_result, timestamps, clock,
                   regenerated, before, history, refreshes, libVars,
                   statsVars, uiVars, exporterVars>>

NextRefresh == New \/ RefreshAcquire \/ RefreshInstall \/ MainReturns

SpecRefresh == InitRefresh /\ [][NextRefresh]_vars

(***************************************************************************)
(* gstat's widgets on their own, as its unit tests use them: a table of a  *)
(* fixed length, and the selector of the columns of a configuration.       *)
(***************************************************************************)
MaxLen == 3

\* Configurations gstat may start with: the default one, whose columns are
\* None; the persisted default; the switches -d -o -s; a persisted choice
\* of the columns L(q) and Name alone
Configs ==
    {Cli_default,
     [Cli_default EXCEPT !.columns = SomeColumnsEnabled(DEFAULT_ENABLED)],
     [Cli_default EXCEPT !.columns = SomeColumnsEnabled(DEFAULT_ENABLED),
                         !.delete = TRUE, !.other = TRUE, !.size = TRUE],
     [Cli_default EXCEPT !.columns = SomeColumnsEnabled(2 ^ QD + 2 ^ NAME)]}

\* Everything but the widgets at rest
NotUiIdle ==
    /\ StatsIdle
    /\ LibInit
    /\ program = "gstat"
    /\ RefreshInit
    /\ ExporterInit

InitWidgets ==
    /\ NotUiIdle
    /\ \E len \in 0..MaxLen : table = [StatefulTable_default EXCEPT !.len = len]
    /\ \E c \in Configs :
            /\ cfg = Columns_new(c).cfg
            /\ columns = Columns_new(c).columns
    /\ main = [pc |-> "start"]
    /\ deinterleaved = NotDeinterleaved
    /\ called = ""

\* StatefulTable::next
TableNext ==
    /\ called # "panicked"
    /\ table' = StatefulTable_next(table)
    /\ called' = "StatefulTable::next"
    /\ UNCHANGED <<columns, cfg, main, deinterleaved, statsVars, libVars,
                   refreshVars, exporterVars>>

\* StatefulTable::previous
TablePrevious ==
    /\ called # "panicked"
    /\ table' = StatefulTable_previous(table)
    /\ called' = "StatefulTable::previous"
    /\ UNCHANGED <<columns, cfg, main, deinterleaved, statsVars, libVars,
                   refreshVars, exporterVars>>

\* Columns::next
ColumnsNext ==
    /\ called # "panicked"
    /\ columns' = Columns_next(columns).self
    /\ called' = IF Columns_next(columns).panicked THEN "panicked"
                 ELSE "Columns::next"
    /\ UNCHANGED <<table, cfg, main, deinterleaved, statsVars, libVars,
                   refreshVars, exporterVars>>

\* Columns::previous
ColumnsPrevious ==
    /\ called # "panicked"
    /\ columns' = Columns_previous(columns).self
    /\ called' = IF Columns_previous(columns).panicked THEN "panicked"
                 ELSE "Columns::previous"
    /\ UNCHANGED <<table, cfg, main, deinterleaved, statsVars, libVars,
                   refreshVars, exporterVars>>

NextWidgets == TableNext \/ TablePrevious \/ ColumnsNext \/ ColumnsPrevious

SpecWidgets == InitWidgets /\ [][NextWidgets]_vars

(***************************************************************************)
(* deinterleave, applied to sequences of rows.                             *)
(***************************************************************************)
MaxItems == 4

MaxContainers == 3

\* The rows: some of them equal
Rows == {"ada0", "ada1", "da0"}

\* The sequences of at most n rows
RECURSIVE RowSeqs(_)
RowSeqs(n) ==
    IF n = 0 THEN {<<>>}
    ELSE RowSeqs(n - 1) \cup
         {Append(q, r) : q \in {p \in RowSeqs(n - 1) : Len(p) = n - 1},
                         r \in Rows}

InitDeinterleave ==
    /\ NotUiIdle
    /\ UiInit

\* A call of deinterleave
Deinterleave ==
    /\ \E items \in RowSeqs(MaxItems), n \in 1..MaxContainers :
            deinterleaved' = [items |-> items, n |-> n,
                              containers |-> deinterleave(items, n)]
    /\ UNCHANGED <<table, columns, cfg, main, called, statsVars, libVars,
                   refreshVars, exporterVars>>

NextDeinterleave == Deinterleave

SpecDeinterleave == InitDeinterleave /\ [][NextDeinterleave]_vars

(***************************************************************************)
(* freebsd-geom-exporter: the handler of /metrics.  A GaugeVec is the set  *)
(* of its series, [device, method, value]; a family that was never used is *)
(* not in the registry.  A Regex is the set of the names it matches.       *)
(***************************************************************************)
MaxScrapes == 3

Families ==
    {"geom_busy_time", "geom_queue_length", "geom_bytes", "geom_duration",
     "geom_operations"}

\* GaugeVec::reset
GaugeVec_reset(reg, family) ==
    [f \in DOMAIN reg \cup {family} |-> IF f = family THEN {} ELSE reg[f]]

\* GaugeVec::with_label_values(..).set(value)
GaugeVec_set(reg, family, device, method, value) ==
    LET old == IF family \in DOMAIN reg THEN reg[family] ELSE {}
        kept == {m \in old : ~(m.device = device /\ m.method = method)}
    IN  [f \in DOMAIN reg \cup {family} |->
            IF f = family
            THEN kept \cup {[device |-> device, method |-> method,
                             value |-> value]}
            ELSE reg[f]]

\* The items Snapshot::iter yields from the cursor of a snapshot on
RECURSIVE IterItems(_)
IterItems(sn) ==
    LET r == SnapshotIter_next(sn)
    IN  IF r.item.some THEN <<r.item.rec>> \o IterItems(r.sn) ELSE <<>>

\* metrics' test of an item: the tree knows it, it has a rank, and the
\* filters of the command line let it through
Reported(c, item) ==
    LET gident == Tree_lookup(item.id)
        rank == Gident_rank(gident.gident)
    IN  /\ gident.some
        /\ rank.some
        /\ ~(rank.rank > 1 /\ c.physical)
        /\ (c.has_include => gident.name \in c.include)
        /\ ~(c.has_exclude /\ gident.name \in c.exclude)

\* The gauges metrics sets for a device whose statistics are st
metrics_set(reg, device, st) ==
    LET r1 == GaugeVec_set(reg, "geom_busy_time", device, "", busy_time(st))
        r2 == GaugeVec_set(r1, "geom_queue_length", device, "",
                           FromInt(queue_length(st).val))
        r3 == GaugeVec_set(r2, "geom_bytes", device, "read",
                           FromInt(st.total_bytes_read))
        r4 == GaugeVec_set(r3, "geom_duration", device, "read",
                           st.total_duration_read)
        r5 == GaugeVec_set(r4, "geom_operations", device, "read",
                           FromInt(st.total_transfers_read))
        r6 == GaugeVec_set(r5, "geom_bytes", device, "write",
                           FromInt(st.total_bytes_write))
        r7 == GaugeVec_set(r6, "geom_duration", device, "write",
                           st.total_duration_write)
        r8 == GaugeVec_set(r7, "geom_operations", device, "write",
                           FromInt(st.total_transfers_write))
        r9 == GaugeVec_set(r8, "geom_bytes", device, "free",
                           FromInt(st.total_bytes_free))
        r10 == GaugeVec_set(r9, "geom_duration", device, "free",
                            st.total_duration_free)
        r11 == GaugeVec_set(r10, "geom_operations", device, "free",
                            FromInt(st.total_transfers_free))
        r12 == GaugeVec_set(r11, "geom_duration", device, "other",
                            st.total_duration_other)
    IN  GaugeVec_set(r12, "geom_operations", device, "other",
                     FromInt(st.total_transfers_other))

\* The body of metrics' loop for an item whose statistics compute returned
metrics_item(acc, item, computed) ==
    [panicked |-> \/ acc.panicked
                  \/ computed.panicked
                  \/ queue_length(computed.st).panicked,
     reg |-> metrics_set(acc.reg, item.id, computed.st)]

\* metrics' loop over the items from the k-th on
RECURSIVE metrics_loop(_, _, _, _)
metrics_loop(acc, c, items, k) ==
    IF k > Len(items) THEN acc
    ELSE IF ~Reported(c, items[k]) THEN metrics_loop(acc, c, items, k + 1)
    ELSE metrics_loop(
            metrics_item(acc, items[k],
                         compute(items[k].devstat, None, Zero)),
            c, items, k + 1)

\* What prometheus::gather and the encoder make of the registry: the
\* families that have series
gather(reg) == [f \in {g \in DOMAIN reg : reg[g] # {}} |-> reg[f]]

\* The end of metrics: the loop has left acc
metrics_end(gs, acc) ==
    [GEOM_STATS |-> gs,
     result |-> IF acc.panicked THEN "panicked" ELSE "Ok",
     registry |-> acc.reg,
     body |-> gather(acc.reg)]

\* metrics: gettree is what geom_gettree returns, open and raw are what
\* Snapshot::new meets
metrics(c, reg, gs, gettree, open, raw) ==
    LET new == Snapshot_new(gs, open, raw)
    IN  IF gettree # 0
        THEN [GEOM_STATS |-> gs, result |-> "Err", registry |-> reg,
              body |-> [f \in {} |-> {}]]
        ELSE IF new.result # "Ok"
        THEN [GEOM_STATS |-> new.GEOM_STATS, result |-> new.result,
              registry |-> reg, body |-> [f \in {} |-> {}]]
        ELSE metrics_end(new.GEOM_STATS,
                metrics_loop([panicked |-> FALSE,
                              reg |-> GaugeVec_reset(reg, "geom_busy_time")],
                             c, IterItems(new.snapshot), 1))

\* The devices the kernel may list at the n-th scrape
ScrapeLists(n) ==
    {<<KernelRecord("ada0", n, 1), KernelRecord("ada1", n, 2),
       KernelRecord("cd0", n, 0)>>,
     <<KernelRecord("ada1", n, 2)>>,
     <<KernelRecord("ada0", n, 1)>>,
     <<>>}

NotScraped ==
    [result |-> "", body |-> [f \in {} |-> {}], recs |-> <<>>, nth |-> 0]

\* The exporter starts, with its command line
InitExporter ==
    /\ StatsIdle
    /\ LibInit
    /\ program = "gstat"
    /\ RefreshInit
    /\ UiInit
    /\ cli \in [physical : BOOLEAN,
                 has_include : BOOLEAN, include : {{"ada0", "ada1"}},
                 has_exclude : BOOLEAN, exclude : {{"ada1"}}]
    /\ registry = [f \in {} |-> {}]
    /\ response = NotScraped

\* A scrape of /metrics
Scrape ==
    /\ response.result # "panicked"
    /\ response.nth < MaxScrapes
    /\ \E gettree \in {0, -1}, open \in {0, -1},
          raw \in {NullSnapshot} \cup
                  {RawSnapshot(l) : l \in ScrapeLists(response.nth + 1)} :
        /\ response' =
                [result |-> metrics(cli, registry, GEOM_STATS, gettree,
                                    open, raw).result,
                 body |-> metrics(cli, registry, GEOM_STATS, gettree,
                                  open, raw).body,
                 recs |-> raw.recs,
                 nth |-> response.nth + 1]
        /\ registry' = metrics(cli, registry, GEOM_STATS, gettree,
                               open, raw).registry
        /\ GEOM_STATS' = metrics(cli, registry, GEOM_STATS, gettree,
                                 open, raw).GEOM_STATS
    /\ UNCHANGED <<cli, snapshots, iterator, new_result, statsVars,
                   refreshVars, uiVars>>

NextExporter == Scrape

SpecExporter == InitExporter /\ [][NextExporter]_vars

(***************************************************************************)
(* gstat's main (src/gstat/src/main.rs): its start, and its loop of a      *)
(* draw and an event.  Each action is an event with its handler and the    *)
(* draw that follows it.  What util::event::poll returns, the kernel's     *)
(* snapshots and clock and the terminal's answers are inputs.              *)
(***************************************************************************)
MaxEvents == 3

\* The names of the devices and the bytes of the characters that names and
\* typed patterns are made of
Bytes ==
    [ada0 |-> <<"a", "d", "a", "0">>, ada1 |-> <<"a", "d", "a", "1">>,
     cd0 |-> <<"c", "d", "0">>]

Byte == [c \in {"(", "0", "1", "a", "c", "d"} |->
            CASE c = "(" -> 40 [] c = "0" -> 48 [] c = "1" -> 49
              [] c = "a" -> 97 [] c = "c" -> 99 [] OTHER -> 100]

\* str::trim, of spaces
RECURSIVE trim_start(_)
trim_start(chars) ==
    IF chars # <<>> /\ Head(chars) = " " THEN trim_start(Tail(chars))
    ELSE chars

RECURSIVE trim_end(_)
trim_end(chars) ==
    IF chars # <<>> /\ chars[Len(chars)] = " "
    THEN trim_end(SubSeq(chars, 1, Len(chars) - 1))
    ELSE chars

trim(chars) == trim_end(trim_start(chars))

\* main's first sort_idx: the first column whose header is cfg.sort, both
\* trimmed
sort_idx_of(c, cols) ==
    LET found == {i \in DOMAIN cols : c.sort.some /\
                    trim(cols[i].header) = trim(c.sort.chars)}
    IN  IF found = {} THEN NoIndex
        ELSE SomeIndex(CHOOSE i \in found : \A j \in found : i <= j)

\* Regex::new, of the patterns that are typed here: digits, which stand
\* for themselves, and "(", which opens a group that nothing closes
Regex_new(chars) ==
    IF \E k \in DOMAIN chars : chars[k] = "("
    THEN [ok |-> FALSE, regex |-> <<>>]
    ELSE [ok |-> TRUE, regex |-> chars]

\* Regex::is_match: the pattern occurs in the name
is_match(regex, name) ==
    \E k \in 0..(Len(Bytes[name]) - Len(regex)) :
        SubSeq(Bytes[name], k + 1, k + Len(regex)) = regex

\* partial_cmp of two f64: None when one is NaN
f64_partial_cmp(l, r) ==
    IF l.kind = "nan" \/ r.kind = "nan" THEN "None"
    ELSE IF LtF(l, r) THEN "Less"
    ELSE IF LtF(r, l) THEN "Greater"
    ELSE "Equal"

\* partial_cmp of two u32
u32_partial_cmp(l, r) ==
    IF l < r THEN "Less" ELSE IF l > r THEN "Greater" ELSE "Equal"

\* partial_cmp of two Strings: by their bytes, a prefix first
RECURSIVE String_partial_cmp(_, _)
String_partial_cmp(l, r) ==
    IF l = <<>> THEN (IF r = <<>> THEN "Equal" ELSE "Less")
    ELSE IF r = <<>> THEN "Greater"
    ELSE IF Byte[Head(l)] < Byte[Head(r)] THEN "Less"
    ELSE IF Byte[Head(l)] > Byte[Head(r)] THEN "Greater"
    ELSE String_partial_cmp(Tail(l), Tail(r))

\* Element::partial_cmp_by
partial_cmp_by(self, k, other) ==
    CASE k = QD -> u32_partial_cmp(self.qd, other.qd)
      [] k = OPS_S -> f64_partial_cmp(self.ops_s, other.ops_s)
      [] k = R_S -> f64_partial_cmp(self.r_s, other.r_s)
      [] k = KB_R -> f64_partial_cmp(self.kb_r, other.kb_r)
      [] k = KBS_R -> f64_partial_cmp(self.kbs_r, other.kbs_r)
      [] k = MS_R -> f64_partial_cmp(self.ms_r, other.ms_r)
      [] k = W_S -> f64_partial_cmp(self.w_s, other.w_s)
      [] k = KB_W -> f64_partial_cmp(self.kb_w, other.kb_w)
      [] k = KBS_W -> f64_partial_cmp(self.kbs_w, other.kbs_w)
      [] k = MS_W -> f64_partial_cmp(self.ms_w, other.ms_w)
      [] k = D_S -> f64_partial_cmp(self.d_s, other.d_s)
      [] k = KB_D -> f64_partial_cmp(self.kb_d, other.kb_d)
      [] k = KBS_D -> f64_partial_cmp(self.kbs_d, other.kbs_d)
      [] k = MS_D -> f64_partial_cmp(self.ms_d, other.ms_d)
      [] k = O_S -> f64_partial_cmp(self.o_s, other.o_s)
      [] k = MS_O -> f64_partial_cmp(self.ms_o, other.ms_o)
      [] k = PCT_BUSY -> f64_partial_cmp(self.pct_busy, other.pct_busy)
      [] k = NAME -> String_partial_cmp(Bytes[self.name], Bytes[other.name])
      [] OTHER -> "None"

\* The closure that DataSource::sort sorts by, before its unwrap
sort_cmp(l, r, k, reverse) ==
    IF reverse THEN partial_cmp_by(r, k, l) ELSE partial_cmp_by(l, k, r)

\* slice::sort_by, which is stable: sorted, and x inserted behind the
\* elements that are not greater than it
RECURSIVE sort_insert(_, _, _, _)
sort_insert(sorted, x, k, reverse) ==
    IF sorted = <<>> THEN <<x>>
    ELSE IF sort_cmp(x, Head(sorted), k, reverse) = "Less"
    THEN <<x>> \o sorted
    ELSE <<Head(sorted)>> \o sort_insert(Tail(sorted), x, k, reverse)

RECURSIVE sort_by(_, _, _)
sort_by(items, k, reverse) ==
    IF items = <<>> THEN <<>>
    ELSE sort_insert(sort_by(SubSeq(items, 1, Len(items) - 1), k, reverse),
                     items[Len(items)], k, reverse)

\* DataSource::sort: the unwrap panics when a comparison gives None, which
\* some comparison of two or more items does when a key is NaN
DataSource_sort(items, sort_idx, reverse) ==
    IF ~sort_idx.some THEN [panicked |-> FALSE, items |-> items]
    ELSE IF /\ Len(items) >= 2
            /\ \E a, b \in DOMAIN items :
                    sort_cmp(items[a], items[b], sort_idx.i, reverse) = "None"
    THEN [panicked |-> TRUE, items |-> items]
    ELSE [panicked |-> FALSE, items |-> sort_by(items, sort_idx.i, reverse)]

\* Column::min_width of the i-th column: the x of its Constraint::Length(x),
\* or of the Constraint::Min(x) of Name
min_width(i) ==
    IF i \in {QD, KB_R, KB_W, KB_D} THEN 5 ELSE IF i = NAME THEN 10 ELSE 7

\* l > r on f64, false when one is NaN
GtF(l, r) == f64_partial_cmp(l, r) = "Greater"

\* An Option<Regex>
NoRegex == [some |-> FALSE, regex |-> <<>>]

SomeRegex(regex) == [some |-> TRUE, regex |-> regex]

\* The three filters of the draw closure, on an element
draw_filter(c, filter, elem) ==
    /\ ~c.auto \/ GtF(elem.pct_busy, Rat(1, 10))
    /\ ~c.physical \/ elem.rank = 1
    /\ IF filter.some THEN is_match(filter.regex, elem.name) ELSE TRUE

\* The sum of a function of 0..(n - 1)
RECURSIVE sum(_, _)
sum(f, n) == IF n = 0 THEN 0 ELSE f[n - 1] + sum(f, n - 1)

\* The draw closure from its tables on: each of the ntables tables in turn
\* sets the length of table, so the last one leaves it.  The division by a
\* twidth of 0 panics.
draw_tables(tbl, names, twidth, ntables) ==
    [panicked |-> twidth = 0,
     table |-> IF twidth = 0 THEN tbl
               ELSE StatefulTable_table(tbl,
                        deinterleave(names, ntables)[ntables]),
     shown |-> IF twidth = 0 THEN <<>> ELSE names]

\* The draw closure from ntables on: NonZeroU16::new(width / twidth), or 1
draw_ntables(tbl, names, twidth, width) ==
    draw_tables(tbl, names, twidth,
                IF twidth = 0 THEN 1
                ELSE IF width \div twidth = 0 THEN 1
                ELSE width \div twidth)

\* The draw closure from twidth on: the sum of the widths of the enabled
\* columns
draw_twidth(cols, tbl, names, max_name_width, width) ==
    draw_ntables(tbl, names,
        sum([i \in 0..(LEN - 1) |->
                IF ~cols.cols[i].enabled THEN 0
                ELSE IF i = NAME
                THEN MaxInt(max_name_width, min_width(i))
                ELSE min_width(i)], LEN),
        width)

\* The longest of names, 0 for none
max_len(names) ==
    IF names = <<>> THEN 0
    ELSE CHOOSE x \in {Len(Bytes[names[k]]) : k \in DOMAIN names} :
            \A k \in DOMAIN names : Len(Bytes[names[k]]) <= x

\* The draw closure from max_name_width on: names are the names of the
\* elements that passed the filters
draw_names(cols, tbl, names, width) ==
    draw_twidth(cols, tbl, names, max_len(names), width)

\* The names of elems, in their order
names_of(elems) == [k \in DOMAIN elems |-> elems[k].name]

\* The closure of terminal.draw, on a frame width columns wide: the rows it
\* shows are those of the elements that pass the filters, dealt out to
\* ntables tables
draw(c, cols, filter, items, tbl, width) ==
    draw_names(cols, tbl,
        names_of(SelectSeq(items, LAMBDA elem : draw_filter(c, filter, elem))),
        width)

\* cleanup_terminal, on a terminal that has a row: fails names the call of
\* it that fails, "" for none.  Raw mode ends when disable_raw_mode is
\* reached and succeeds.
cleanup_terminal(m, fails) ==
    [m EXCEPT !.cleanups = @ + 1,
              !.raw_mode = IF fails = "" THEN FALSE ELSE @,
              !.result = IF fails = "" THEN "Ok" ELSE "Err"]

\* The keys
Key(code) == [code |-> code, c |-> ""]

Char(c) == [code |-> "Char", c |-> c]

\* Enter while the regex is edited: re is the Result of Regex::new
enter(w, re) ==
    IF re.ok
    THEN [w EXCEPT !.main.editting_regex = FALSE,
                   !.main.filter = SomeRegex(re.regex),
                   !.cfg.filter = SomeString(w.main.new_regex),
                   !.main.new_regex = <<>>]
    ELSE [w EXCEPT !.next = "regex"]

\* The keys of the loop while the regex is edited
key_editing(w, key) ==
    CASE key.code = "Enter" -> enter(w, Regex_new(w.main.new_regex))
      [] key.code = "Char" ->
            [w EXCEPT !.main.new_regex = Append(@, key.c)]
      [] key.code = "Backspace" ->
            [w EXCEPT !.main.new_regex =
                        IF @ = <<>> THEN @ ELSE SubSeq(@, 1, Len(@) - 1)]
      [] key.code = "Esc" -> [w EXCEPT !.main.editting_regex = FALSE]
      [] OTHER -> w

\* cfg.columns.as_mut().unwrap().0 ^= 1 << i; columns.cols[i].enabled ^=
\* true: the unwrap panics when cfg.columns is None
toggle_column(w, i) ==
    IF ~w.cfg.columns.some THEN [w EXCEPT !.next = "panicked"]
    ELSE [w EXCEPT !.cfg.columns.bits = XorBit(@, i),
                   !.columns.cols[i].enabled = ~@]

\* columns.next() or columns.previous() has left s
column_moved(w, s) ==
    [w EXCEPT !.columns = s.self,
              !.next = IF s.panicked THEN "panicked" ELSE @]

\* The keys of the loop while the columns are selected
key_selecting(w, key) ==
    CASE key = Char(" ") ->
            IF w.columns.state.selected.some
            THEN toggle_column(w, w.columns.state.selected.i)
            ELSE w
      [] key = Char("q") -> [w EXCEPT !.next = "break"]
      [] key.code = "Down" -> column_moved(w, Columns_next(w.columns))
      [] key.code = "Up" -> column_moved(w, Columns_previous(w.columns))
      [] key.code = "Esc" -> [w EXCEPT !.main.selecting_columns = FALSE]
      [] OTHER -> w

\* data.sort has left s: its unwrap may have panicked
sorted(w, s) ==
    [w EXCEPT !.items = s.items,
              !.next = IF s.panicked THEN "panicked" ELSE @]

\* data.refresh()?; data.sort(sort_idx, cfg.reverse): r is what refresh
\* returns and leaves
refresh_and_sort(w, r) ==
    IF r.result # "Ok"
    THEN [w EXCEPT !.next = r.result, !.main.refreshed = @ + 1]
    ELSE sorted([w EXCEPT !.main.refreshed = @ + 1],
                DataSource_sort(r.items, w.main.sort_idx, w.cfg.reverse))

\* data.sort(sort_idx, cfg.reverse)
sort(w) ==
    sorted(w, DataSource_sort(w.items, w.main.sort_idx, w.cfg.reverse))

\* The loop of '+': the next enabled column after sort_idx, None behind
\* the last
RECURSIVE sort_idx_next(_, _)
sort_idx_next(sort_idx, cols) ==
    LET idx == IF sort_idx.some THEN sort_idx.i + 1 ELSE 0
    IN  IF idx >= LEN THEN NoIndex
        ELSE IF cols[idx].enabled THEN SomeIndex(idx)
        ELSE sort_idx_next(SomeIndex(idx), cols)

\* The loop of '-': the enabled column before sort_idx, None before the
\* first
RECURSIVE sort_idx_previous(_, _)
sort_idx_previous(sort_idx, cols) ==
    LET s == IF sort_idx.some THEN checked_sub(sort_idx.i, 1)
             ELSE SomeIndex(LEN - 1)
    IN  IF ~s.some THEN NoIndex
        ELSE IF cols[s.i].enabled THEN s
        ELSE sort_idx_previous(s, cols)

\* '+' and '-' once the loop has left sort_idx: cfg.sort is the header of
\* the column, and the data is sorted
sort_by_column(w, sort_idx) ==
    sort([w EXCEPT !.main.sort_idx = sort_idx,
                   !.cfg.sort = IF sort_idx.some
                                THEN SomeString(w.columns.cols[sort_idx.i]
                                                    .header)
                                ELSE NoString])

\* The keys of the loop otherwise; r is what data.refresh returns and
\* leaves if it is called
key_normal(w, key, r) ==
    CASE key = Char(" ") ->
            IF w.main.paused
            THEN refresh_and_sort([w EXCEPT !.main.paused = FALSE], r)
            ELSE [w EXCEPT !.main.paused = TRUE]
      [] key = Char("+") ->
            sort_by_column(w, sort_idx_next(w.main.sort_idx, w.columns.cols))
      [] key = Char("-") ->
            sort_by_column(w, sort_idx_previous(w.main.sort_idx,
                                                w.columns.cols))
      [] key = Char("<") ->
            [w EXCEPT !.main.tick_rate = @ \div 2,
                      !.cfg.interval = SomeDuration(w.main.tick_rate \div 2)]
      [] key = Char(">") ->
            [w EXCEPT !.main.tick_rate = @ * 2,
                      !.cfg.interval = SomeDuration(w.main.tick_rate * 2)]
      [] key = Char("F") ->
            [w EXCEPT !.cfg.filter = NoString, !.main.filter = NoRegex]
      [] key = Char("a") -> [w EXCEPT !.cfg.auto = ~@]
      [] key = Char("f") ->
            [w EXCEPT !.main.editting_regex = TRUE, !.main.new_regex = <<>>]
      [] key = Char("p") -> [w EXCEPT !.cfg.physical = ~@]
      [] key = Char("q") -> [w EXCEPT !.next = "break"]
      [] key = Char("r") -> sort([w EXCEPT !.cfg.reverse = ~@])
      [] key.code = "Down" -> [w EXCEPT !.table = StatefulTable_next(@)]
      [] key.code = "Up" -> [w EXCEPT !.table = StatefulTable_previous(@)]
      [] key.code = "Delete" ->
            IF w.main.sort_idx.some
            THEN toggle_column(w, w.main.sort_idx.i)
            ELSE w
      [] key.code = "Insert" -> [w EXCEPT !.main.selecting_columns = TRUE]
      [] OTHER -> w

\* The arm of Event::Tick as it would be if it did not look at paused
tick_while_paused(w, r) == refresh_and_sort(w, r)

\* The arm of Event::Tick
tick(w, r) == IF ~w.main.paused THEN refresh_and_sort(w, r) ELSE w

\* The arm of Event::Key
key_event(w, key, r) ==
    IF w.main.editting_regex THEN key_editing(w, key)
    ELSE IF w.main.selecting_columns THEN key_selecting(w, key)
    ELSE key_normal(w, key, r)

\* DataSource::refresh from its regen on: sn is what Snapshot::new
\* returned, self the data source with the new snapshot installed, g what
\* regen left
DataSource_regenerated(old, self, sn, snaps, stamps, now, g) ==
    [result |-> g.result, self |-> self, items |-> g.items,
     GEOM_STATS |-> sn.GEOM_STATS, snapshots |-> snaps,
     timestamps |-> stamps, clock |-> now]

\* DataSource::refresh or DataSource::new when Snapshot::new fails
DataSource_failed(old, sn, snaps, stamps, now) ==
    [result |-> sn.result, self |-> old, items |-> old.items,
     GEOM_STATS |-> sn.GEOM_STATS, snapshots |-> snaps,
     timestamps |-> stamps, clock |-> now]

\* DataSource::refresh once Snapshot::new has returned sn: the new
\* snapshot becomes cur and cur prev, the older prev is dropped, and regen
DataSource_installed(self, sn, f, snaps, stamps, now) ==
    IF sn.result # "Ok" THEN DataSource_failed(self, sn, snaps, stamps, now)
    ELSE DataSource_regenerated(self, f.self, sn,
            Dropped(Append(snaps, sn.snapshot), f.dropped),
            Append(stamps, now), now,
            regen("gstat", f.self,
                  Dropped(Append(snaps, sn.snapshot), f.dropped),
                  Append(stamps, now), NoUptime))

\* DataSource::refresh once Snapshot::new has returned sn, at the time now
DataSource_acquired(self, sn, snaps, stamps, now) ==
    DataSource_installed(self, sn, refresh(self, sn.result, Len(snaps) + 1),
                         snaps, stamps, now)

\* DataSource::refresh on self
DataSource_refresh(self, gs, snaps, stamps, now, open, raw, step) ==
    DataSource_acquired(self, Snapshot_new(gs, open, raw), snaps, stamps,
                        IF raw.null THEN now ELSE ClockAfter(now, step))

\* DataSource::new once Snapshot::new has returned sn: regen
DataSource_created(self, sn, snaps, stamps, now, uptime) ==
    IF sn.result # "Ok" THEN DataSource_failed(NoData, sn, snaps, stamps, now)
    ELSE DataSource_regenerated(NoData, self, sn, Append(snaps, sn.snapshot),
            Append(stamps, now), now,
            regen("gstat", self, Append(snaps, sn.snapshot),
                  Append(stamps, now), uptime))

\* DataSource::new: Tree::new, Snapshot::new and regen
DataSource_new(gs, snaps, stamps, now, gettree, open, raw, step, uptime) ==
    IF gettree # 0
    THEN [result |-> "Err", self |-> NoData, items |-> <<>>,
          GEOM_STATS |-> gs, snapshots |-> snaps, timestamps |-> stamps,
          clock |-> now]
    ELSE DataSource_created(
            [prev |-> 0, cur |-> Len(snaps) + 1, items |-> <<>>],
            Snapshot_new(gs, open, raw), snaps, stamps,
            IF raw.null THEN now ELSE ClockAfter(now, step), uptime)

\* main's locals before it starts, and what is recorded of its run: event
\* is the last event, refreshed how often its handler called data.refresh,
\* events how many events there were, shown the rows of the last draw,
\* cleanups how often cleanup_terminal was called
MainInit ==
    [pc |-> "start", result |-> "", raw_mode |-> FALSE, cleanups |-> 0,
     filter |-> NoRegex, tick_rate |-> 0, editting_regex |-> FALSE,
     new_regex |-> <<>>, paused |-> FALSE, selecting_columns |-> FALSE,
     sort_idx |-> NoIndex, width |-> 0, event |-> "", refreshed |-> 0,
     events |-> 0, shown |-> <<>>]

\* The configurations main may come to after confy::load and cfg |= cli: a
\* reset one; the persisted default sorted by kB/r; the same with the
\* switches -d -o -s, sorted by r/s; L(q) and Name alone, sorted by Name in
\* reverse
MainConfigs ==
    {Cli_default,
     [Cli_default EXCEPT !.columns = SomeColumnsEnabled(DEFAULT_ENABLED),
                         !.sort = SomeString(<<"k", "B", "/", "r">>)],
     [Cli_default EXCEPT !.columns = SomeColumnsEnabled(DEFAULT_ENABLED),
                         !.delete = TRUE, !.other = TRUE, !.size = TRUE,
                         !.sort = SomeString(<<"r", "/", "s">>)],
     [Cli_default EXCEPT !.columns = SomeColumnsEnabled(2 ^ QD + 2 ^ NAME),
                         !.sort = SomeString(<<"N", "a", "m", "e">>),
                         !.reverse = TRUE]}

\* The widths of the terminal
Widths == {80, 160}

\* What clock_gettime(CLOCK_UPTIME) returns to main
MainUptimes ==
    {[ok |-> FALSE, ts |-> Timespec(0, 0)],
     [ok |-> TRUE, ts |-> Timespec(100, 500000000)],
     [ok |-> TRUE, ts |-> Timespec(1000, 0)]}

\* The time between two snapshots of main
TickStep == Timespec(1, 0)

\* What poll returns as a key
Keys ==
    {Char(c) : c \in {" ", "+", "-", "<", ">", "F", "a", "f", "p", "q", "r",
                      "1", "("}}
    \cup {Key(code) : code \in {"Enter", "Backspace", "Esc", "Down", "Up",
                                "Delete", "Insert", "Tab"}}

\* The calls of cleanup_terminal that may fail, "" for none
CleanupFails == {"", "size", "set_cursor", "disable_raw_mode"}

InitMain ==
    /\ StatsIdle
    /\ LibInit
    /\ program = "gstat"
    /\ RefreshInit
    /\ ExporterInit
    /\ table = StatefulTable_default
    /\ columns = [cols |-> <<>>, state |-> [selected |-> NoIndex]]
    /\ cfg \in MainConfigs
    /\ main = MainInit
    /\ deinterleaved = NotDeinterleaved
    /\ called = ""

\* The state in which a handler starts
World ==
    [cfg |-> cfg, columns |-> columns, table |-> table,
     items |-> data.items, main |-> [main EXCEPT !.refreshed = 0],
     next |-> "loop"]

\* After the handler of event left w: the loop goes on with a draw, or it
\* was broken, and confy::store and cleanup_terminal end main, or the
\* regex did not compile, and cleanup_terminal comes before the error, or
\* an error or a panic ends main at once.  r is what data.refresh left if
\* the handler called it, d what the draw leaves.
Handled(w, event, r, d, fails) ==
    LET m == [w.main EXCEPT !.event = event, !.events = @ + 1]
        returned == [m EXCEPT !.pc = "returned"]
    IN  /\ cfg' = w.cfg
        /\ columns' = w.columns
        /\ table' = IF w.next = "loop" /\ ~d.panicked THEN d.table
                    ELSE w.table
        /\ main' =
            CASE w.next = "loop" ->
                    IF d.panicked THEN [returned EXCEPT !.result = "panicked"]
                    ELSE [m EXCEPT !.shown = d.shown]
              [] w.next = "break" -> cleanup_terminal(returned, fails)
              [] w.next = "regex" ->
                    [cleanup_terminal(returned, fails)
                        EXCEPT !.result = "Err"]
              [] OTHER -> [returned EXCEPT !.result = w.next]
        /\ data' = IF w.main.refreshed > 0
                   THEN [r.self EXCEPT !.items = w.items]
                   ELSE [data EXCEPT !.items = w.items]
        /\ GEOM_STATS' = IF w.main.refreshed > 0 THEN r.GEOM_STATS
                         ELSE GEOM_STATS
        /\ snapshots' = IF w.main.refreshed > 0 THEN r.snapshots
                        ELSE snapshots
        /\ timestamps' = IF w.main.refreshed > 0 THEN r.timestamps
                         ELSE timestamps
        /\ clock' = IF w.main.refreshed > 0 THEN r.clock ELSE clock
        /\ UNCHANGED <<program, ss, rpc, refresh_result, regenerated, before,
                       history, refreshes, iterator, new_result,
                       deinterleaved, called, statsVars, exporterVars>>

\* The handler left w: the draw that follows is of w
Drawn(w) ==
    draw(w.cfg, w.columns, w.main.filter, w.items, w.table, w.main.width)

\* The handler of event left w, and the loop draws again or ends
HandledDrawn(w, event, r, fails) == Handled(w, event, r, Drawn(w), fails)

\* main from its first sort to its first draw, d: r is what
\* DataSource::new returned, w the state the sort left
Started(w, r, d, fails) ==
    /\ cfg' = w.cfg
    /\ columns' = w.columns
    /\ table' = IF r.result = "Ok" /\ w.next = "loop" /\ fails = ""
                    /\ ~d.panicked
                 THEN d.table
                 ELSE StatefulTable_default
    /\ data' = IF r.result = "Ok" THEN [r.self EXCEPT !.items = w.items]
               ELSE data
    /\ GEOM_STATS' = r.GEOM_STATS
    /\ snapshots' = r.snapshots
    /\ timestamps' = r.timestamps
    /\ clock' = r.clock
    /\ main' =
        IF r.result # "Ok"
        THEN [w.main EXCEPT !.pc = "returned", !.result = r.result]
        ELSE IF w.next # "loop"
        THEN [w.main EXCEPT !.pc = "returned", !.result = w.next]
        ELSE IF fails = "terminal.clear"
        THEN [w.main EXCEPT !.pc = "returned", !.result = "Err"]
        ELSE IF d.panicked
        THEN [w.main EXCEPT !.pc = "returned", !.result = "panicked"]
        ELSE [w.main EXCEPT !.pc = "poll", !.shown = d.shown]

\* main from DataSource::new on
StartedDrawn(w, r, fails) == Started(w, r, Drawn(w), fails)

\* main from Columns::new on: filter is the Result of the Regex::new of
\* cfg.filter, new what Columns::new left, r what DataSource::new returns
\* when main comes to it
Configured(filter, new, sort_idx, r, fails, width) ==
    IF ~filter.ok \/ fails = "enable_raw_mode"
    THEN /\ main' = [main EXCEPT !.pc = "returned", !.result = "panicked"]
         /\ cfg' = IF filter.ok THEN new.cfg ELSE cfg
         /\ UNCHANGED <<columns, table, data, GEOM_STATS, snapshots,
                        timestamps, clock>>
    ELSE IF fails = "Terminal::new"
    THEN /\ main' = [main EXCEPT !.pc = "returned", !.result = "Err",
                                 !.raw_mode = TRUE]
         /\ cfg' = new.cfg
         /\ UNCHANGED <<columns, table, data, GEOM_STATS, snapshots,
                        timestamps, clock>>
    ELSE StartedDrawn(
            sort([cfg |-> new.cfg, columns |-> new.columns,
                  table |-> StatefulTable_default, items |-> r.items,
                  main |-> [main EXCEPT
                        !.filter = IF cfg.filter.some
                                   THEN SomeRegex(filter.regex)
                                   ELSE NoRegex,
                        !.tick_rate = IF cfg.interval.some
                                      THEN cfg.interval.micros
                                      ELSE 1000000,
                        !.sort_idx = sort_idx,
                        !.width = width,
                        !.raw_mode = TRUE],
                  next |-> "loop"]),
            r, fails)

\* main from its sort_idx on
Sorted(filter, new, r, fails, width) ==
    Configured(filter, new, sort_idx_of(new.cfg, new.columns.cols), r, fails,
               width)

\* main up to its loop and the first draw.  fails names the call to the
\* terminal or the configuration that fails, "" for none.
Startup ==
    /\ main.pc = "start"
    /\ \E fails \in {"", "confy::load", "enable_raw_mode", "Terminal::new",
                     "terminal.clear"},
          width \in Widths, gettree \in {0, -1}, open \in {0, -1},
          raw \in NextRaw, uptime \in MainUptimes :
        IF fails = "confy::load"
        THEN /\ main' = [main EXCEPT !.pc = "returned", !.result = "Err"]
             /\ UNCHANGED <<cfg, columns, table, data, GEOM_STATS,
                            snapshots, timestamps, clock>>
        ELSE Sorted(IF cfg.filter.some THEN Regex_new(cfg.filter.chars)
                    ELSE [ok |-> TRUE, regex |-> <<>>],
                    Columns_new(cfg),
                    DataSource_new(GEOM_STATS, snapshots, timestamps, clock,
                                   gettree, open, raw, TickStep, uptime),
                    fails, width)
    /\ UNCHANGED <<program, ss, rpc, refresh_result, regenerated, before,
                   history, refreshes, iterator, new_result, deinterleaved,
                   called, statsVars, exporterVars>>

\* main waits in poll for an event it will handle
Polling == main.pc = "poll" /\ main.events < MaxEvents

\* The arm of Event::Tick and the draw after it
Ticked(r) == HandledDrawn(tick(World, r), "Tick", r, "")

\* What geom_stats_open and geom_stats_snapshot_get return to a handler
\* that calls data.refresh; to one that does not, nothing
Kernel(refreshes_data) ==
    IF refreshes_data THEN {0, -1} \X NextRaw ELSE {<<0, NullSnapshot>>}

\* poll returns Event::Tick
Tick ==
    /\ Polling
    /\ \E k \in Kernel(~main.paused) :
        Ticked(DataSource_refresh(data, GEOM_STATS, snapshots, timestamps,
                                  clock, k[1], k[2], TickStep))

\* The arm of Event::Key and what follows it
KeyHandled(key, r, fails) ==
    HandledDrawn(key_event(World, key, r),
                 IF key.code = "Char" THEN key.c ELSE key.code, r, fails)

\* The key makes its handler call data.refresh
Unpauses(key) ==
    /\ key = Char(" ")
    /\ main.paused
    /\ ~main.editting_regex
    /\ ~main.selecting_columns

\* The key makes its handler call cleanup_terminal, or break the loop
Leaves(key) ==
    \/ main.editting_regex /\ key.code = "Enter"
    \/ ~main.editting_regex /\ key = Char("q")

\* poll returns Event::Key
KeyEvent ==
    /\ Polling
    /\ \E key \in Keys :
        \E k \in Kernel(Unpauses(key)),
           fails \in IF Leaves(key) THEN CleanupFails ELSE {""} :
            KeyHandled(key,
                DataSource_refresh(data, GEOM_STATS, snapshots, timestamps,
                                   clock, k[1], k[2], TickStep),
                fails)

\* poll returns Event::Mouse or an event unknown to main: ignored
Ignored ==
    /\ Polling
    /\ \E event \in {"Mouse", "Resize"} :
        HandledDrawn(World, event, NoData, "")

\* poll returns None: stdin is closed, the loop is broken
StdinClosed ==
    /\ Polling
    /\ \E fails \in CleanupFails :
        HandledDrawn([World EXCEPT !.next = "break"], "None", NoData, fails)

\* poll returns an error, which main returns
PollFails ==
    /\ Polling
    /\ HandledDrawn([World EXCEPT !.next = "Err"], "Err", NoData, "")

NextMain ==
    Startup \/ Tick \/ KeyEvent \/ Ignored \/ StdinClosed \/ PollFails

SpecMain == InitMain /\ [][NextMain]_vars

(***************************************************************************)
(* Properties.                                                             *)
(***************************************************************************)
Returned == pc \in {"computed", "called"}

\* A bintime in units of 2^-FracBits seconds
BintimeUnits(t) == t.sec * FracMod + t.frac

\* The bintime of previous that sel selects, {0, 0} for no previous
PreviousBintime(sel) ==
    IF previous.some THEN Bintime(previous.ds, sel) ELSE ZeroBintime

\* The exact difference of the two bintimes that sel selects, in seconds
ExactDelta(sel) ==
    Fin(BintimeUnits(Bintime(current, sel)) - BintimeUnits(PreviousBintime(sel)),
        1, FracBits)

\* Whether the seconds of that difference, borrow included, fit the signed
\* seconds type at every step of delta_t!
DeltaFits(sel) ==
    LET a == Bintime(current, sel)
        b == PreviousBintime(sel)
        borrow == IF b.frac > a.frac THEN 1 ELSE 0
    IN  /\ a.sec - b.sec >= SecMin
        /\ a.sec - b.sec <= SecMax
        /\ a.sec - b.sec - borrow >= SecMin

DurationSel(c) == <<"duration", c>>

DurationField ==
    [NO_DATA |-> "total_duration_other", READ |-> "total_duration_read",
     WRITE |-> "total_duration_write", FREE |-> "total_duration_free"]

\* C1: for every pair of bintime values a (of current) and b (of previous),
\* the seconds that delta_t! yields are exactly a - b, borrow included and
\* negative results included.
C1_DeltaTExact ==
    Returned =>
        \A c \in Classes : stats[DurationField[c]] = ExactDelta(DurationSel(c))

\* C1, where the seconds difference fits the signed seconds type: the borrow
\* is right, and delta_t! is exact.
C1_DeltaTExactWhereItFits ==
    Returned =>
        \A c \in Classes :
            DeltaFits(DurationSel(c)) =>
                stats[DurationField[c]] = ExactDelta(DurationSel(c))

\* A borrow with a negative result: {0, 0} - {1, 1/4} = -1.25 s
C1_BorrowReached ==
    /\ Returned
    /\ current.duration["READ"] = ZeroBintime
    /\ previous.some
    /\ previous.ds.duration["READ"] = [sec |-> 1, frac |-> FracMod \div 4]
    /\ stats.total_duration_read = Rat(-5, 4)

RateMethods ==
    DOMAIN FieldsPerSecMethods \cup DOMAIN MbPerSecMethods

\* C2: with etime = 0.0, every transfers-per-second, blocks-per-second and
\* MB-per-second accessor and busy_pct return exactly 0.0.  Stated of the
\* builds that check overflow, where no value that is returned has wrapped.
C2_ZeroEtimeGivesZero ==
    (/\ pc = "called"
     /\ etime = Zero
     /\ ret.meth \in RateMethods \cup {"busy_pct"}
     /\ overflow_checks)
        => ret.val = Zero

\* C2 without busy_pct: the guarded accessors return 0.0 for etime = 0.0.
C2_ZeroEtimeRatesZero ==
    (pc = "called" /\ etime = Zero /\ ret.meth \in RateMethods)
        => ret.val = Zero

\* busy_pct with etime = 0.0 and a busy time that grew
C2_BusyPctAtZeroEtime ==
    /\ pc = "called"
    /\ etime = Zero
    /\ ret.meth = "busy_pct"
    /\ Gt0(ExactDelta(<<"busy_time">>))

\* The transfer count each average is guarded by
CountField ==
    [kb_per_transfer |-> "total_transfers",
     kb_per_transfer_free |-> "total_transfers_free",
     kb_per_transfer_read |-> "total_transfers_read",
     kb_per_transfer_write |-> "total_transfers_write",
     ms_per_transaction |-> "total_transfers",
     ms_per_transaction_free |-> "total_transfers_free",
     ms_per_transaction_read |-> "total_transfers_read",
     ms_per_transaction_other |-> "total_transfers_other",
     ms_per_transaction_write |-> "total_transfers_write"]

\* C3: for every class, and for the aggregate, whose delta operation count
\* is 0, kb_per_transfer and ms_per_transaction of that class return 0.0,
\* whatever the byte and duration deltas are.
C3_ZeroCountGivesZero ==
    (/\ pc = "called"
     /\ ret.meth \in DOMAIN CountField
     /\ stats[CountField[ret.meth]] = 0)
        => ret.val = Zero

\* A class with no transfers, but bytes and a duration: kb_per_transfer_write
C3_ZeroCountReached ==
    /\ pc = "called"
    /\ ret.meth = "kb_per_transfer_write"
    /\ stats.total_transfers_write = 0
    /\ stats.total_bytes_write > 0
    /\ stats.total_duration_write # Zero
    /\ ret.val = Zero

\* What the method of the last call returns on the struct self
RetOn(self) ==
    CASE ret.meth \in FieldsMethods ->
            [panicked |-> FALSE, val |-> self[ret.meth]]
      [] ret.meth \in DOMAIN FieldsPerSecMethods ->
            [panicked |-> FALSE,
             val |-> fields_per_sec(self, FieldsPerSecMethods[ret.meth])]
      [] ret.meth \in DOMAIN KbPerXferMethods ->
            [panicked |-> FALSE,
             val |-> kb_per_xfer(self, KbPerXferMethods[ret.meth][1],
                                 KbPerXferMethods[ret.meth][2])]
      [] ret.meth \in DOMAIN MbPerSecMethods ->
            [panicked |-> FALSE,
             val |-> mb_per_sec(self, MbPerSecMethods[ret.meth])]
      [] ret.meth \in DOMAIN MsPerXferMethods ->
            [panicked |-> FALSE,
             val |-> ms_per_xfer(self, MsPerXferMethods[ret.meth][1],
                                 MsPerXferMethods[ret.meth][2])]
      [] ret.meth \in {"total_duration", "total_duration_free",
                       "total_duration_read", "total_duration_other",
                       "total_duration_write"} ->
            [panicked |-> FALSE, val |-> self[ret.meth]]
      [] ret.meth = "busy_time" ->
            [panicked |-> FALSE, val |-> busy_time(self)]
      [] ret.meth = "busy_pct" -> busy_pct(self)
      [] ret.meth = "queue_length" -> queue_length(self)

\* C4: compute(current, None, etime) and compute(current, Some(z), etime),
\* z all zero, agree: both panic or neither does, every field of the two
\* structs but `previous` is the same, and every accessor returns the same.
C4_NoPreviousIsZeroPrevious ==
    previous = Some(ZeroDevstat) =>
        LET none == compute(current, None, etime)
        IN  /\ (pc # "start" /\ ret.meth = "") =>
                    ((pc = "panicked") <=> none.panicked)
            /\ Returned =>
                    \A f \in DOMAIN stats \ {"previous"} :
                        stats[f] = none.st[f]
            /\ ret.meth # "" =>
                    /\ ret.panicked = RetOn(none.st).panicked
                    /\ ~ret.panicked => ret.val = RetOn(none.st).val

\* busy_pct of a record with counters and a busy time, against Some(z)
C4_ZeroPreviousReached ==
    /\ previous = Some(ZeroDevstat)
    /\ pc = "called"
    /\ ret.meth = "busy_pct"
    /\ ret.val # Zero
    /\ stats.total_transfers_read > 0
    /\ stats.total_bytes_write > 0
    /\ stats.total_duration_free # Zero

OtherBytesDelta ==
    (current.bytes["NO_DATA"]
     - (IF previous.some THEN previous.ds.bytes["NO_DATA"] ELSE 0)) % U64Mod

OwnBytesField ==
    [kb_per_transfer_free |-> "total_bytes_free",
     kb_per_transfer_read |-> "total_bytes_read",
     kb_per_transfer_write |-> "total_bytes_write"]

\* C7: for each class c of read, write, free with delta_count[c] > 0,
\* kb_per_transfer_c is delta_bytes[c] / 1024 / delta_count[c].  Stated of
\* the builds that check overflow, where no value that is returned has
\* wrapped.
C7_KbPerTransferOwnBytes ==
    (/\ pc = "called"
     /\ overflow_checks
     /\ ret.meth \in DOMAIN OwnBytesField
     /\ stats[CountField[ret.meth]] > 0)
        => ret.val = DivF(DivF(FromInt(stats[OwnBytesField[ret.meth]]),
                               FromInt(1024)),
                          FromInt(stats[CountField[ret.meth]]))

\* The fields each rate and each latency is claimed to be computed from
TransfersField ==
    [transfers_per_second |-> "total_transfers",
     transfers_per_second_free |-> "total_transfers_free",
     transfers_per_second_other |-> "total_transfers_other",
     transfers_per_second_read |-> "total_transfers_read",
     transfers_per_second_write |-> "total_transfers_write"]

BytesField ==
    [mb_per_second |-> "total_bytes",
     mb_per_second_free |-> "total_bytes_free",
     mb_per_second_read |-> "total_bytes_read",
     mb_per_second_write |-> "total_bytes_write"]

LatencyFields ==
    [ms_per_transaction |-> <<"total_duration", "total_transfers">>,
     ms_per_transaction_free |->
        <<"total_duration_free", "total_transfers_free">>,
     ms_per_transaction_read |->
        <<"total_duration_read", "total_transfers_read">>,
     ms_per_transaction_other |->
        <<"total_duration_other", "total_transfers_other">>,
     ms_per_transaction_write |->
        <<"total_duration_write", "total_transfers_write">>]

\* For etime > 0: transfers_per_second_c = delta_count[c] / etime,
\* mb_per_second_c = delta_bytes[c] / 2^20 / etime and, for
\* delta_count[c] > 0, ms_per_transaction_c =
\* delta_duration[c] * 1000 / delta_count[c].
RateFormulas ==
    (pc = "called" /\ Gt0(etime)) =>
        /\ ret.meth \in DOMAIN TransfersField =>
                ret.val = DivF(FromInt(stats[TransfersField[ret.meth]]), etime)
        /\ ret.meth \in DOMAIN BytesField =>
                ret.val = DivF(Rat(stats[BytesField[ret.meth]], 2 ^ 20), etime)
        /\ (/\ ret.meth \in DOMAIN LatencyFields
            /\ stats[LatencyFields[ret.meth][2]] > 0) =>
                ret.val = DivF(MulF(stats[LatencyFields[ret.meth][1]],
                                    FromInt(1000)),
                               FromInt(stats[LatencyFields[ret.meth][2]]))

\* Read: current {1000 ops, 4096000 B, 2 s}, previous {500 ops, 2048000 B,
\* 1 s}, etime 10
IsExample ==
    /\ current.operations = ExampleCur.operations
    /\ current.bytes = ExampleCur.bytes
    /\ current.duration = ExampleCur.duration
    /\ previous = Some(ExamplePrev)
    /\ etime = FromInt(10)

\* What the example's four accessors return, given the milliseconds per
\* transaction
ExampleGives(ms) ==
    (IsExample /\ pc = "called") =>
        /\ ret.meth = "transfers_per_second_read" => ret.val = FromInt(50)
        /\ ret.meth = "mb_per_second_read" => ret.val = Rat(1953125, 10000000)
        /\ ret.meth = "kb_per_transfer_read" => ret.val = FromInt(4)
        /\ ret.meth = "ms_per_transaction_read" => ret.val = FromInt(ms)

\* C8: the rate and latency formulas, and the example, which gives 50
\* transfers/s, 0.1953125 MB/s, 4.0 kB/transfer and 2000 ms/transaction.
C8_RatesAndExample2000 == RateFormulas /\ ExampleGives(2000)

\* C8, amended: the same formulas; the example gives 50 transfers/s,
\* 0.1953125 MB/s, 4.0 kB/transfer and 2 ms/transaction (1 s * 1000 / 500).
C8_RatesAndExample2 == RateFormulas /\ ExampleGives(2)

\* The example's ms_per_transaction_read
C8_ExampleReached ==
    /\ IsExample
    /\ pc = "called"
    /\ ret.meth = "ms_per_transaction_read"
    /\ ret.val = FromInt(2)

\* C9: queue_length() returns (start_count - end_count) mod 2^32 without
\* failing, also when end_count is greater than start_count.
C9_QueueLengthWraps ==
    ret.meth = "queue_length" =>
        /\ ~ret.panicked
        /\ ret.val = (current.start_count - current.end_count) % U32Mod

\* A previous record with an operation or byte counter larger than that
\* of current, and no bintime larger
MismatchedCounters ==
    /\ previous.some
    /\ \E c \in Classes :
            \/ previous.ds.operations[c] > current.operations[c]
            \/ previous.ds.bytes[c] > current.bytes[c]
    /\ \A c \in Classes : DeltaFits(DurationSel(c))

\* C10: compute has no error path: it returns and never panics, also for
\* a previous record whose operation or byte counters are larger than
\* those of current.  Stated of that case, which the claim names.
C10_ComputeNeverPanics ==
    (ret.meth = "" /\ MismatchedCounters) => pc # "panicked"

\* C11: the fixed-point subtraction is total: for all a and b it yields a
\* result, and the signed seconds never overflow.  Stated of the four
\* duration deltas that compute takes and of the busy-time delta that
\* busy_pct takes.
C11_DeltaTNeverOverflows ==
    /\ pc # "start" =>
            \A c \in Classes :
                ~delta_t(current, previous, DurationSel(c)).overflow
    /\ ret.meth = "busy_pct" =>
            ~delta_t(current, previous, <<"busy_time">>).overflow

\* The exact busy-time difference of current and previous, in seconds
BusyDelta == ExactDelta(<<"busy_time">>)

\* max(0, busy_delta / etime * 100)
ClampedBusyPct(busy_delta) ==
    LET pct == MulF(DivF(busy_delta, etime), FromInt(100))
    IN  IF Lt0(pct) THEN Zero ELSE pct

\* C12: for etime > 0, busy_pct() returns max(0, busy_delta / etime * 100):
\* 0.0 for a negative busy_delta, and the value unchanged, also above 100,
\* otherwise.
C12_BusyPctClampedBelowOnly ==
    (ret.meth = "busy_pct" /\ Gt0(etime)) =>
        /\ ~ret.panicked
        /\ ret.val = ClampedBusyPct(BusyDelta)

\* C12, where the seconds of the busy-time difference fit the signed
\* seconds type: busy_pct() is max(0, busy_delta / etime * 100).
C12_BusyPctClampedWhereItFits ==
    (ret.meth = "busy_pct" /\ Gt0(etime) /\ DeltaFits(<<"busy_time">>)) =>
        /\ ~ret.panicked
        /\ ret.val = ClampedBusyPct(BusyDelta)
        /\ ~Lt0(ret.val)
        /\ LtF(etime, BusyDelta) => LtF(FromInt(100), ret.val)

\* The field of bytes each field of blocks is claimed to be computed from
BlocksOf ==
    [total_blocks |-> "total_bytes",
     total_blocks_read |-> "total_bytes_read",
     total_blocks_write |-> "total_bytes_write",
     total_blocks_free |-> "total_bytes_free"]

\* C13: the block denominator is current.block_size when that is > 0 and
\* 512 when it is 0, never 0 and never taken from previous; each of
\* total_blocks, total_blocks_read, total_blocks_write, total_blocks_free
\* is its byte delta divided by it, truncating.
C13_BlocksByCurrentBlockSize ==
    Returned =>
        LET denominator ==
                IF current.block_size > 0 THEN current.block_size ELSE 512
        IN  /\ denominator > 0
            /\ \A b \in DOMAIN BlocksOf :
                    /\ stats[b] = stats[BlocksOf[b]] \div denominator
                    /\ stats[b] * denominator <= stats[BlocksOf[b]]
                    /\ stats[BlocksOf[b]] < (stats[b] + 1) * denominator
            /\ ret.meth \in DOMAIN BlocksOf =>
                    ret.val = stats[BlocksOf[ret.meth]] \div denominator

\* 2048 bytes written against a block size of 4096, where previous has a
\* block size of 2048: no block, the division truncates
C13_TruncationReached ==
    /\ pc = "called"
    /\ ret.meth = "total_blocks_write"
    /\ current.block_size = 4096
    /\ previous.some
    /\ previous.ds.block_size = 2048
    /\ stats.total_bytes_write = 2048
    /\ ret.val = 0

\* The choices of previous
Previouses == {None} \cup {Some(q) : q \in Profiles}

\* C14: queue_length() and busy_time() depend only on current: whatever
\* previous and etime the struct was computed from, they return the same
\* (and busy_time is the busy time of current, in seconds).
C14_OnlyCurrent ==
    ret.meth \in {"queue_length", "busy_time"} =>
        /\ \A p \in Previouses, e \in Etimes :
                LET other == compute(current, p, e)
                IN  ~other.panicked =>
                        /\ RetOn(other.st).panicked = ret.panicked
                        /\ ~ret.panicked => RetOn(other.st).val = ret.val
        /\ ret.meth = "busy_time" =>
                ret.val = Fin(BintimeUnits(current.busy_time), 1, FracBits)

\* busy_time of a record that has a previous with a busy time of its own
C14_WithPreviousReached ==
    /\ pc = "called"
    /\ ret.meth = "busy_time"
    /\ previous.some
    /\ previous.ds.busy_time # ZeroBintime
    /\ previous.ds.busy_time # current.busy_time
    /\ ret.val = FromInt(2)

\* The first n elements of a sequence
Prefix(seq, n) == [k \in 1..n |-> seq[k]]

\* The records of the snapshot the live iterator takes its current record from
CurRecs == snapshots[iterator.cur].recs

\* Whatever iterators were used and dropped before, whether exhausted or
\* not: with no iterator live every cursor is at the first record, and what
\* the live iterator has yielded are the records from the first one on, in
\* the snapshot's order
FromTheFirst ==
    /\ iterator.kind = "none" =>
            \A h \in DOMAIN snapshots : snapshots[h].uu = 0
    /\ iterator.kind = "iter" =>
            /\ Len(iterator.items) <= Len(CurRecs)
            /\ iterator.items = Prefix(CurRecs, Len(iterator.items))
            /\ iterator.done => iterator.items = CurRecs
    /\ iterator.kind = "pair" =>
            /\ Len(iterator.items) <= Len(CurRecs)
            /\ [k \in 1..Len(iterator.items) |-> iterator.items[k].cur] =
                    Prefix(CurRecs, Len(iterator.items))
            /\ iterator.done => Len(iterator.items) = Len(CurRecs)

\* No step changes the records of a snapshot, or their order
RecsKept ==
    \A h \in DOMAIN snapshots : snapshots'[h].recs = snapshots[h].recs

\* C15: iteration is restartable: when every iterator is dropped before
\* the next is made, exhausted or not, a fresh iter() or iter_pair() yields
\* the records again from the first one, and iterating never changes the
\* records of a snapshot or their order.
C15_Restartable == [] FromTheFirst /\ [][RecsKept]_vars

\* A third iterator, made after two were dropped, one of them before it
\* had returned None: it has yielded the first two of three records
C15_RestartReached ==
    /\ iterator.kind = "iter"
    /\ iterator.nth = 3
    /\ iterator.cut = 1
    /\ Len(CurRecs) = 3
    /\ iterator.items = Prefix(CurRecs, 2)
    /\ Len(snapshots) = 2

\* C16: iter_pair pairs by position: with a previous snapshot, the k-th
\* item is the k-th record of current with the k-th record of previous, for
\* every k up to the length of both, whatever the devices are; with no
\* previous snapshot every item is the k-th record of current with None.
C16_PairsByPosition ==
    iterator.kind = "pair" =>
        \A k \in 1..Len(iterator.items) :
            /\ k <= Len(CurRecs)
            /\ iterator.items[k].cur = CurRecs[k]
            /\ iterator.prev = 0 => iterator.items[k].prev = NoDevstat
            /\ (iterator.prev # 0 /\ k <= Len(snapshots[iterator.prev].recs))
                    => iterator.items[k].prev =
                            SomeDevstat(snapshots[iterator.prev].recs[k])

\* Two items of a pair whose snapshots list the devices in different
\* orders: each record of current is with a record of another device
C16_OtherDeviceReached ==
    /\ iterator.kind = "pair"
    /\ iterator.prev # 0
    /\ Len(iterator.items) = 2
    /\ \A k \in 1..2 :
            /\ iterator.items[k].prev.some
            /\ iterator.items[k].prev.rec.id # iterator.items[k].cur.id
            /\ \E j \in 1..Len(snapshots[iterator.prev].recs) :
                    snapshots[iterator.prev].recs[j].id
                        = iterator.items[k].cur.id

\* C19: a failure of the counter source is an error value, not a crash:
\* when the initialization by geom_stats_open has failed, or when
\* geom_stats_snapshot_get returns NULL, Snapshot::new returns Err.
C19_FailureIsErr ==
    (new_result.open = "Err" \/ new_result.get = "null") =>
        new_result.result = "Err"

\* C19, for the failure Snapshot::new hands on: when GEOM_STATS is Ok and
\* geom_stats_snapshot_get returns NULL, Snapshot::new returns Err, and it
\* returns Ok only of a snapshot.
C19_NullIsErr ==
    /\ new_result.get = "null" => new_result.result = "Err"
    /\ new_result.result = "Ok" =>
            new_result.open = "Ok" /\ new_result.get = "snapshot"

\* The snapshots that were acquired and not yet freed
Alive == {h \in DOMAIN snapshots : ~snapshots[h].freed}

\* C17: in the refresh loop of gstat and of greasestat at most two
\* snapshots, the current and the previous one, are alive at any time, and
\* the older previous snapshot is released only after the deltas against it
\* were computed.
C17_AtMostTwoAlive ==
    /\ Cardinality(Alive) <= 2
    /\ history.released \subseteq history.compared

\* The part of C17 that the code keeps: between two calls of refresh at most
\* two snapshots are alive, and a released snapshot was compared against
C17_TwoAliveBetweenRefreshes ==
    /\ rpc = "idle" => Cardinality(Alive) <= 2
    /\ history.released \subseteq history.compared

\* The seconds between two timestamps
SecondsBetween(later, earlier) ==
    AddF(Timespec_to_f64(later), MulF(FromInt(-1), Timespec_to_f64(earlier)))

\* C18: in gstat, after any successful refreshes prev is the snapshot that
\* was cur before the most recent refresh, it was acquired before cur, and
\* etime is cur's timestamp less prev's; before the first refresh prev is
\* None, every record is computed with no previous record and etime is the
\* system's uptime.
C18_PrevIsFormerCur ==
    (program = "gstat" /\ rpc = "idle") =>
        /\ \A k \in 1..Len(regenerated.calls) :
                regenerated.calls[k].etime = regenerated.etime
        /\ Len(data.items) = Len(regenerated.calls)
        /\ refreshes = 0 =>
                /\ data.prev = 0
                /\ \A k \in 1..Len(regenerated.calls) :
                        regenerated.calls[k].prev = None
                /\ regenerated.etime = Timespec_to_f64(regenerated.uptime)
        /\ refreshes > 0 =>
                /\ data.prev \in Alive
                /\ data.cur \in Alive
                /\ data.prev < data.cur
                /\ Gt0(regenerated.etime)
                /\ regenerated.etime =
                        SecondsBetween(timestamps[data.cur],
                                       timestamps[data.prev])
                /\ \A k \in 1..Len(regenerated.calls) :
                        /\ regenerated.calls[k].prev.some
                        /\ \E j \in 1..Len(snapshots[data.prev].recs) :
                                regenerated.calls[k].prev.ds =
                                    snapshots[data.prev].recs[j].devstat
        /\ (refreshes > 0 /\ refresh_result = "Ok") =>
                data.prev = before.cur

\* gstat's second refresh returned, and the subtraction of the timestamps
\* borrowed
C18_SecondRefreshReached ==
    /\ program = "gstat"
    /\ rpc = "idle"
    /\ refreshes = 2
    /\ refresh_result = "Ok"
    /\ data.prev = 2
    /\ data.cur = 3
    /\ timestamps[3].tv_nsec < timestamps[2].tv_nsec
    /\ Len(regenerated.calls) = 2

\* C20: when the acquisition of the snapshot fails during a refresh, refresh
\* returns the failure and leaves prev, cur and the items as they were, so
\* that a later refresh computes its deltas against the snapshot that was
\* acquired last.
C20_FailedRefreshChangesNothing ==
    /\ (before # NoData /\ new_result.result = "Err") =>
            refresh_result = "Err"
    /\ refresh_result = "Err" =>
            /\ data = before
            /\ data.cur \in Alive
            /\ data.prev # 0 => data.prev \in Alive
    /\ (rpc = "idle" /\ refreshes > 0) => data.prev = data.cur - 1
    /\ rpc = "acquired" => data.cur = ss - 1

\* A refresh failed for a null snapshot, after one that succeeded
C20_FailedRefreshReached ==
    /\ rpc = "idle"
    /\ refresh_result = "Err"
    /\ new_result.get = "null"
    /\ refreshes = 1
    /\ data.prev = 1
    /\ data.cur = 2
    /\ Len(data.items) = 2

\* The records of the snapshot the live pair iterator takes its previous
\* records from
PrevRecs == IF iterator.prev = 0 THEN <<>> ELSE snapshots[iterator.prev].recs

\* What a pair iterator has yielded: no more items than current has
\* records, and an item beyond the end of previous has no previous record
AsManyAsCurrent ==
    iterator.kind = "pair" =>
        /\ Len(iterator.items) <= Len(CurRecs)
        /\ iterator.done => Len(iterator.items) = Len(CurRecs)
        /\ \A k \in 1..Len(iterator.items) :
                /\ iterator.items[k].cur = CurRecs[k]
                /\ k > Len(PrevRecs) => iterator.items[k].prev = NoDevstat
                /\ iterator.items[k].prev.some =>
                        /\ k <= Len(PrevRecs)
                        /\ iterator.items[k].prev.rec = PrevRecs[k]

\* A call of next on an iterator that has returned None yields nothing
NothingAfterNone ==
    (iterator.kind = "pair" /\ iterator.done /\ iterator'.kind = "pair") =>
        /\ iterator'.items = iterator.items
        /\ iterator'.done

\* C26: iter_pair yields exactly as many items as the current snapshot has
\* records, whatever the length of the previous one: beyond the end of a
\* shorter previous the items are (current record, None), the extra
\* records of a longer previous are never yielded, and once current is
\* exhausted no further item is produced.
C26_AsManyItemsAsCurrent == [] AsManyAsCurrent /\ [][NothingAfterNone]_vars

\* An exhausted pair iterator whose previous snapshot had two records and
\* whose current one had three: the third item has no previous record
C26_ShorterPreviousReached ==
    /\ iterator.kind = "pair"
    /\ iterator.done
    /\ Len(PrevRecs) = 2
    /\ Len(CurRecs) = 3
    /\ Len(iterator.items) = 3
    /\ iterator.items[2].prev.some
    /\ ~iterator.items[3].prev.some

\* The selection after a next of a table of n rows
AfterNext(selected, n) ==
    IF ~selected.some THEN (IF n = 0 THEN NoIndex ELSE SomeIndex(0))
    ELSE IF selected.i = n - 1 THEN NoIndex
    ELSE SomeIndex(selected.i + 1)

\* The selection after a previous of a table of n rows
AfterPrevious(selected, n) ==
    IF ~selected.some THEN (IF n = 0 THEN NoIndex ELSE SomeIndex(n - 1))
    ELSE IF selected.i = 0 THEN NoIndex
    ELSE SomeIndex(selected.i - 1)

\* A step of the table: its length stays, and its selection moves as
\* next and previous are said to move it
TableSteps ==
    /\ table'.len = table.len
    /\ called' = "StatefulTable::next" =>
            table'.state.selected =
                AfterNext(table.state.selected, table.len)
    /\ called' = "StatefulTable::previous" =>
            table'.state.selected =
                AfterPrevious(table.state.selected, table.len)

\* The table selects nothing, or one of its rows
RowSelected ==
    table.state.selected.some =>
        (0 <= table.state.selected.i /\ table.state.selected.i < table.len)

\* C21: for a StatefulTable of a fixed length n, next steps the selection
\* None, 0, 1, .., n - 1, None and previous None, n - 1, .., 0, None; with
\* n = 0 both leave it None; neither selects an index >= n or panics.
C21_TableSelectionCycles ==
    /\ [] (RowSelected /\ called # "panicked")
    /\ [][TableSteps]_vars

\* previous has taken the selection of a table of three rows from None to
\* its last row
C21_LastRowReached ==
    /\ table.len = 3
    /\ called = "StatefulTable::previous"
    /\ table.state.selected = SomeIndex(2)

\* A step of the selector: next goes to the following column, and from the
\* last to the first; previous the other way
SelectorSteps ==
    /\ called' = "Columns::next" =>
            columns'.state.selected =
                SomeIndex(IF columns.state.selected.i = LEN - 1 THEN 0
                          ELSE columns.state.selected.i + 1)
    /\ called' = "Columns::previous" =>
            columns'.state.selected =
                SomeIndex(IF columns.state.selected.i = 0 THEN LEN - 1
                          ELSE columns.state.selected.i - 1)

\* The selector has one of its columns selected
ColumnSelected ==
    /\ columns.state.selected.some
    /\ 0 <= columns.state.selected.i
    /\ columns.state.selected.i < Len([k \in 1..LEN |-> columns.cols[k - 1]])
    /\ DOMAIN columns.cols = 0..(LEN - 1)

\* C22: the selector of the columns always has a column selected: after
\* Columns::new and after any calls of next and previous the selection is
\* Some(i) with 0 <= i < the number of columns; next wraps from the last
\* column to the first and previous from the first to the last.
C22_ColumnAlwaysSelected ==
    /\ [] (ColumnSelected /\ called # "panicked")
    /\ [][SelectorSteps]_vars

\* previous has wrapped from the first column to the last
C22_WrappedToLastReached ==
    /\ called = "Columns::previous"
    /\ columns.state.selected = SomeIndex(LEN - 1)

\* The positions, counted from 0, of the items that belong in container c
\* of n, in ascending order
RECURSIVE PositionsOf(_, _, _)
PositionsOf(c, n, len) ==
    IF c >= len THEN <<>> ELSE <<c>> \o PositionsOf(c + n, n, len)

Passing ==
    {response.recs[k].id : k \in
        {j \in 1..Len(response.recs) :
            /\ response.recs[j].id \in {"ada0", "ada1"}
            /\ cli.physical => response.recs[j].id = "ada0"
            /\ cli.has_include => response.recs[j].id \in cli.include
            /\ cli.has_exclude => response.recs[j].id \notin cli.exclude}}

\* C28: after any scrapes of /metrics every gauge family of the response
\* has series only for the devices that are in the snapshot of that scrape
\* and passed its filters; a device that has disappeared since an earlier
\* scrape is in none of them.
C28_OnlyCurrentDevices ==
    response.result = "Ok" =>
        \A f \in DOMAIN response.body :
            \A m \in response.body[f] : m.device \in Passing

\* The part of C28 that the code keeps: geom_busy_time, the one gauge that
\* metrics resets, has series for exactly the devices that passed
C28_BusyTimeOnlyCurrent ==
    response.result = "Ok" =>
        /\ "geom_busy_time" \in DOMAIN response.body =>
                {m.device : m \in response.body["geom_busy_time"]} = Passing
        /\ "geom_busy_time" \notin DOMAIN response.body => Passing = {}

\* Columns::new has built the columns
ColumnsBuilt == DOMAIN columns.cols = 0..(LEN - 1)

\* C30: once Columns::new has run, and after any events of main's loop,
\* cfg.columns is Some and for every column index i its bit i equals
\* columns.cols[i].enabled
C30_BitsAgreeWithColumns ==
    ColumnsBuilt =>
        /\ cfg.columns.some
        /\ \A i \in 0..(LEN - 1) :
                Bit(cfg.columns.bits, i) = columns.cols[i].enabled

\* The column selector has moved down to ops/s and has toggled it off
C30_ToggledInSelector ==
    /\ ColumnsBuilt
    /\ main.selecting_columns
    /\ main.event = " "
    /\ columns.state.selected = SomeIndex(OPS_S)
    /\ ~columns.cols[OPS_S].enabled
    /\ ~Bit(cfg.columns.bits, OPS_S)

\* C27: in main's loop sort_idx is None or the index of a column that is
\* enabled
C27_SortIdxEnabled ==
    main.pc = "poll" /\ main.sort_idx.some =>
        columns.cols[main.sort_idx.i].enabled

\* The enabled columns behind sort_idx, all of them for None, and those
\* before it
EnabledBehind ==
    {i \in 0..(LEN - 1) : /\ columns.cols[i].enabled
                          /\ main.sort_idx.some => i > main.sort_idx.i}

EnabledBefore ==
    {i \in 0..(LEN - 1) : /\ columns.cols[i].enabled
                          /\ main.sort_idx.some => i < main.sort_idx.i}

\* C27, the half of it that holds: '+' moves sort_idx to the next enabled
\* column, or to None behind the last, and '-' to the enabled column
\* before, or to None before the first
PlusMinusSteps ==
    /\ main.pc = "poll"
    /\ ~main.editting_regex
    /\ ~main.selecting_columns
    /\ main'.events = main.events + 1
    => /\ main'.event = "+" =>
            main'.sort_idx =
                IF EnabledBehind = {} THEN NoIndex
                ELSE SomeIndex(CHOOSE i \in EnabledBehind :
                                \A j \in EnabledBehind : i <= j)
       /\ main'.event = "-" =>
            main'.sort_idx =
                IF EnabledBefore = {} THEN NoIndex
                ELSE SomeIndex(CHOOSE i \in EnabledBefore :
                                \A j \in EnabledBefore : i >= j)

C27_PlusMinusSkipDisabled == [][PlusMinusSteps]_vars

\* The next step handles an event of main's loop
Handles == main.pc = "poll" /\ main'.events = main.events + 1

\* Keys go to the arms of main's loop that pause, sort and quit
NormalKeys == ~main.editting_regex /\ ~main.selecting_columns

\* The data source and the snapshots are left as they were
DataUntouched ==
    /\ main'.refreshed = 0
    /\ data' = data
    /\ snapshots' = snapshots
    /\ timestamps' = timestamps

\* The steps of C25
PauseSteps ==
    /\ Handles /\ main.paused /\ main'.event = "Tick" =>
            main'.paused /\ DataUntouched
    /\ Handles /\ NormalKeys /\ main.paused /\ main'.event = " " =>
            /\ ~main'.paused
            /\ main'.refreshed = 1
            /\ main'.pc = "poll" =>
                    /\ Len(snapshots') = Len(snapshots) + 1
                    /\ data'.cur = Len(snapshots')
                    /\ data'.prev = data.cur
    /\ Handles /\ NormalKeys /\ ~main.paused /\ main'.event = " " =>
            main'.paused /\ DataUntouched

PassesOthers(elem) ==
    /\ ~cfg.physical \/ elem.rank = 1
    /\ main.filter.some => is_match(main.filter.regex, elem.name)

\* The names of the elements of data.items that are at least 0.1% busy and
\* pass the other filters, in the order of the items
AtLeastTenthBusy ==
    names_of(SelectSeq(data.items,
        LAMBDA elem : /\ f64_partial_cmp(elem.pct_busy, Rat(1, 10))
                            \in {"Greater", "Equal"}
                      /\ PassesOthers(elem)))

\* The same of those that are more than 0.1% busy
MoreThanTenthBusy ==
    names_of(SelectSeq(data.items,
        LAMBDA elem : /\ f64_partial_cmp(elem.pct_busy, Rat(1, 10))
                            = "Greater"
                      /\ PassesOthers(elem)))

\* C24: with auto set, the rows drawn are those of the elements whose
\* pct_busy >= 0.1 and that pass the physical and regex filters
C24_AutoShowsAtLeastTenth ==
    main.pc = "poll" /\ cfg.auto => main.shown = AtLeastTenthBusy

\* C24 as the code has it: with auto set, the rows drawn are those of the
\* elements whose pct_busy > 0.1
C24_AutoShowsMoreThanTenth ==
    main.pc = "poll" /\ cfg.auto => main.shown = MoreThanTenthBusy

\* main has returned from its loop, which it enters in raw mode, by a
\* return and not by a panic
ReturnedFromLoop ==
    main.pc = "returned" /\ main.events > 0 /\ main.result # "panicked"

\* C29: when main returns from its loop, cleanup_terminal has run
C29_CleanupBeforeReturn == ReturnedFromLoop => main.cleanups > 0

\* C29, the half of it that holds: main runs cleanup_terminal once when it
\* returns because of the quit key, the end of stdin or a regex that does
\* not compile
C29_CleanupWhenLeaving ==
    ReturnedFromLoop /\ main.event \in {"q", "None", "Enter"} =>
        main.cleanups = 1

=============================================================================
